---- MODULE Spec2Model ----
(***************************************************************************)
(* Salesforce profile comparison: the ProfileNormalizer (normalizer.ts,    *)
(* normalizer.service.ts), the SalesforceService fetches it drives         *)
(* (salesforce.ts, salesforce.service.ts) and the DiffEngine (diff.ts,     *)
(* diff.service.ts).                                                       *)
(*                                                                         *)
(* JavaScript values are modelled as follows.                              *)
(*   - An object literal / Record / Map is an "object": a record           *)
(*     [keys, val] whose keys is the sequence of its keys in insertion     *)
(*     order (the order Object.keys, Map and Set iteration follow) and     *)
(*     whose val maps each key to its value.                               *)
(*   - An array is a sequence.                                             *)
(*   - undefined is the string Undefined.                                  *)
(*   - Record<profileId, value> (DiffItem.values) is a function on the     *)
(*     set of profile ids written, a later write replacing an earlier one. *)
(*   - Opaque Salesforce ids are naturals; names are strings.              *)
(***************************************************************************)
EXTENDS Integers, Sequences, FiniteSets, TLC

VARIABLES
    org,               \* the Salesforce org behind the session:
                       \* [known, owned, bulk, outages]
    profileIds,        \* req.body.profileIds of the compare request
    pc,                \* where the request handler stands
    fetch,             \* per SalesforceService fetch: [st, batch]
    thisProfiles,      \* ProfileNormalizer.profiles: Map<Id, SalesforceProfile>
    status,            \* the HTTP status answered, 0 while there is none
    profiles,          \* NormalizedProfile[]: what normalizeProfiles returned,
                       \* what DiffEngine.compare is handed
    includeUnchanged,  \* the flag handed to DiffEngine.compare
    comparison,        \* the ComparisonResults returned, in call order: <<>>
                       \* before the first call of DiffEngine.compare
    pkceStore,         \* Map<state, {verifier, expires}> of the OAuth flow
    now,               \* Date.now(), in ticks
    sessions,          \* the sessions the OAuth callback has stored
    issuedAt,          \* history: state -> time getAuthorizationUrl issued it
    handedOut          \* history: state -> times getPkceData returned its verifier

requestVars == <<org, profileIds, pc, fetch, thisProfiles, status>>
compareVars == <<org, profileIds, pc, fetch, thisProfiles, status, profiles,
                 includeUnchanged, comparison>>
authVars == <<pkceStore, now, sessions, issuedAt, handedOut>>
vars == <<org, profileIds, pc, fetch, thisProfiles, status, profiles, includeUnchanged,
          comparison, pkceStore, now, sessions, issuedAt, handedOut>>

(***************************************************************************)
(* Bounds of the model.                                                    *)
(***************************************************************************)
\* Largest number of NormalizedProfile documents handed to compare.
MaxProfiles == 4

Undefined == "undefined"

(***************************************************************************)
(* JavaScript objects with insertion-ordered keys.                         *)
(***************************************************************************)
EmptyObject == [keys |-> <<>>, val |-> <<>>]

Has(o, k) == k \in DOMAIN o.val

\* o[k] = v
Put(o, k, v) ==
    [keys |-> IF Has(o, k) THEN o.keys ELSE Append(o.keys, k),
     val  |-> [x \in (DOMAIN o.val) \cup {k} |-> IF x = k THEN v ELSE o.val[x]]]

\* o[k] ?? d
GetOr(o, k, d) == IF Has(o, k) THEN o.val[k] ELSE d

\* As if includes looked at the first member only.
InSeqFirstOnly(s, x) == s # <<>> /\ s[1] = x

\* Array.prototype.includes
InSeq(s, x) == \E i \in DOMAIN s : s[i] = x

\* Set.add on a Set kept as the sequence of its members in insertion order
SetAdd(s, x) == IF InSeq(s, x) THEN s ELSE Append(s, x)

RECURSIVE SetAddAll(_, _)
SetAddAll(s, xs) ==
    IF xs = <<>> THEN s
    ELSE IF InSeq(s, Head(xs)) THEN SetAddAll(s, Tail(xs))
    ELSE SetAddAll(SetAdd(s, Head(xs)), Tail(xs))

RECURSIVE Flatten(_)
Flatten(ss) == IF ss = <<>> THEN <<>> ELSE Head(ss) \o Flatten(Tail(ss))

\* Array.prototype.filter for "diffType !== 'unchanged'", then .length
CountChanged(items) ==
    Cardinality({i \in DOMAIN items : items[i].diffType # "unchanged"})

(***************************************************************************)
(* DiffEngine (src/lib/diff.ts; diff.service.ts is the same code).         *)
(***************************************************************************)
\* As if every entry of values were read from the first profile of the list.
LastWithIdFirst(ps, id) == 1

\* values[p.profileId] = ... for each profile in order: one entry per id,
\* written last by the last profile carrying that id.
LastWithId(ps, id) ==
    CHOOSE i \in DOMAIN ps :
        /\ ps[i].profileId = id
        /\ \A j \in DOMAIN ps : ps[j].profileId = id => j <= i

ValuesByProfile(ps, f(_)) ==
    [id \in {ps[i].profileId : i \in DOMAIN ps} |-> f(ps[LastWithId(ps, id)])]

determineDiffTypeSwapped(values) ==
    LET boolValues   == values
        uniqueValues == {boolValues[id] : id \in DOMAIN boolValues}
        trueCount    == Cardinality({id \in DOMAIN boolValues : boolValues[id] = TRUE})
        falseCount   == Cardinality({id \in DOMAIN boolValues : boolValues[id] = FALSE})
    IN  IF Cardinality(uniqueValues) = 1 THEN "unchanged"
        ELSE IF falseCount = 1 /\ trueCount > 0 THEN "removed"
        ELSE IF trueCount = 1 /\ falseCount > 0 THEN "added"
        ELSE "changed"

determineDiffTypeAnyTrue(values) ==
    LET boolValues   == values
        uniqueValues == {boolValues[id] : id \in DOMAIN boolValues}
        trueCount    == Cardinality({id \in DOMAIN boolValues : boolValues[id] = TRUE})
        falseCount   == Cardinality({id \in DOMAIN boolValues : boolValues[id] = FALSE})
    IN  IF Cardinality(uniqueValues) = 1 THEN "unchanged"
        ELSE IF trueCount >= 1 /\ falseCount > 0 THEN "added"
        ELSE IF falseCount = 1 /\ trueCount > 0 THEN "removed"
        ELSE "changed"

determineDiffTypeNoRemoved(values) ==
    LET boolValues   == values
        uniqueValues == {boolValues[id] : id \in DOMAIN boolValues}
        trueCount    == Cardinality({id \in DOMAIN boolValues : boolValues[id] = TRUE})
        falseCount   == Cardinality({id \in DOMAIN boolValues : boolValues[id] = FALSE})
    IN  IF Cardinality(uniqueValues) = 1 THEN "unchanged"
        ELSE IF trueCount = 1 /\ falseCount > 0 THEN "added"
        ELSE "changed"

determineDiffType(values) ==
    LET boolValues   == values
        uniqueValues == {boolValues[id] : id \in DOMAIN boolValues}
        trueCount    == Cardinality({id \in DOMAIN boolValues : boolValues[id] = TRUE})
        falseCount   == Cardinality({id \in DOMAIN boolValues : boolValues[id] = FALSE})
    IN  IF Cardinality(uniqueValues) = 1 THEN "unchanged"
        ELSE IF trueCount = 1 /\ falseCount > 0 THEN "added"
        ELSE IF falseCount = 1 /\ trueCount > 0 THEN "removed"
        ELSE "changed"

\* As if string values were refined like booleans, 'Hidden' counting as false.
determineDiffTypeForStringsRefined(values) ==
    LET uniqueValues == {values[id] : id \in DOMAIN values}
        shown        == Cardinality({id \in DOMAIN values : values[id] # "Hidden"})
        hidden       == Cardinality({id \in DOMAIN values : values[id] = "Hidden"})
    IN  IF Cardinality(uniqueValues) = 1 THEN "unchanged"
        ELSE IF shown = 1 /\ hidden > 0 THEN "added"
        ELSE IF hidden = 1 /\ shown > 0 THEN "removed"
        ELSE "changed"

determineDiffTypeForStrings(values) ==
    LET uniqueValues == {values[id] : id \in DOMAIN values}
    IN  IF Cardinality(uniqueValues) = 1 THEN "unchanged" ELSE "changed"

DiffItem(path, category, objectName, fieldName, permissionName, values, diffType) ==
    [path |-> path, category |-> category, objectName |-> objectName,
     fieldName |-> fieldName, permissionName |-> permissionName,
     values |-> values, diffType |-> diffType]

\* One evaluated key: "if (diffType !== 'unchanged' || includeUnchanged) {
\*   if (diffType !== 'unchanged') summary.<key>++; differences.push(item) }"
StepCountingEmitted(item, inclUnchanged) ==
    LET emitted == item.diffType # "unchanged" \/ inclUnchanged
    IN  [push |-> IF emitted THEN <<item>> ELSE <<>>,
         inc  |-> IF emitted THEN 1 ELSE 0]

StepAlwaysEmitted(item, inclUnchanged) ==
    [push |-> <<item>>,
     inc  |-> IF item.diffType # "unchanged" THEN 1 ELSE 0]

Step(item, inclUnchanged) ==
    LET emitted == item.diffType # "unchanged" \/ inclUnchanged
    IN  [push |-> IF emitted THEN <<item>> ELSE <<>>,
         inc  |-> IF emitted /\ item.diffType # "unchanged" THEN 1 ELSE 0]

RECURSIVE SumInc(_)
SumInc(steps) == IF steps = <<>> THEN 0 ELSE Head(steps).inc + SumInc(Tail(steps))

\* The effect of one pass on the two accumulators compare hands to it.
\* "summaryKey in summary" guards the increment (always true for the typed passes).
Accumulate(acc, steps, summaryKey) ==
    [differences |-> acc.differences \o Flatten([i \in DOMAIN steps |-> steps[i].push]),
     summary |-> IF summaryKey \in DOMAIN acc.summary
                 THEN [acc.summary EXCEPT ![summaryKey] = @ + SumInc(steps)]
                 ELSE acc.summary]

ObjectPermissionTypes == <<"read", "create", "edit", "delete", "viewAll", "modifyAll">>
FieldPermissionTypes == <<"read", "edit">>

RECURSIVE CollectKeys(_, _, _)
\* profiles.forEach(p => keysOf(p).forEach(name => all.add(name)))
CollectKeys(ps, keysOf(_), acc) ==
    IF ps = <<>> THEN acc
    ELSE CollectKeys(Tail(ps), keysOf, SetAddAll(acc, keysOf(Head(ps))))

compareObjectPermissions(ps, acc, inclUnchanged) ==
    LET objKeys(p) == p.objects.keys
        allObjectNames == CollectKeys(ps, objKeys, <<>>)
        item(objectName, permType) ==
            LET val(p) == IF Has(p.objects, objectName)
                          THEN p.objects.val[objectName].permissions[permType]
                          ELSE FALSE
                values == ValuesByProfile(ps, val)
            IN  DiffItem("objects." \o objectName \o ".permissions." \o permType,
                         "objectPermission", objectName, Undefined, permType,
                         values, determineDiffType(values))
        steps == Flatten([i \in DOMAIN allObjectNames |->
                    [j \in DOMAIN ObjectPermissionTypes |->
                        Step(item(allObjectNames[i], ObjectPermissionTypes[j]),
                             inclUnchanged)]])
    IN  Accumulate(acc, steps, "objectPermissions")

compareFieldPermissions(ps, acc, inclUnchanged) ==
    LET objKeys(p) == p.objects.keys
        \* allFields: Map<objectName, Set<fieldName>>, keys in insertion order
        allFieldObjects == CollectKeys(ps, objKeys, <<>>)
        fieldNames(objectName) ==
            LET fieldKeys(p) == IF Has(p.objects, objectName)
                                THEN p.objects.val[objectName].fields.keys
                                ELSE <<>>
            IN  CollectKeys(ps, fieldKeys, <<>>)
        item(objectName, fieldName, permType) ==
            LET val(p) == IF /\ Has(p.objects, objectName)
                             /\ Has(p.objects.val[objectName].fields, fieldName)
                          THEN p.objects.val[objectName].fields.val[fieldName][permType]
                          ELSE FALSE
                values == ValuesByProfile(ps, val)
            IN  DiffItem("objects." \o objectName \o ".fields." \o fieldName
                            \o "." \o permType,
                         "fieldPermission", objectName, fieldName, permType,
                         values, determineDiffType(values))
        stepsOf(objectName) ==
            LET fs == fieldNames(objectName)
            IN  Flatten([i \in DOMAIN fs |->
                    [j \in DOMAIN FieldPermissionTypes |->
                        Step(item(objectName, fs[i], FieldPermissionTypes[j]),
                             inclUnchanged)]])
        steps == Flatten([i \in DOMAIN allFieldObjects |-> stepsOf(allFieldObjects[i])])
    IN  Accumulate(acc, steps, "fieldPermissions")

compareSystemPermissions(ps, acc, inclUnchanged) ==
    LET permKeys(p) == p.systemPermissions.keys
        allPermissions == CollectKeys(ps, permKeys, <<>>)
        item(permName) ==
            LET val(p) == GetOr(p.systemPermissions, permName, FALSE)
                values == ValuesByProfile(ps, val)
            IN  DiffItem("systemPermissions." \o permName, "systemPermission",
                         Undefined, Undefined, permName,
                         values, determineDiffType(values))
        steps == [i \in DOMAIN allPermissions |->
                    Step(item(allPermissions[i]), inclUnchanged)]
    IN  Accumulate(acc, steps, "systemPermissions")

\* categoryToSummaryKey[category] || `${category}s`
SummaryKeyOf(category) ==
    CASE category = "apexClass"       -> "apexClasses"
      [] category = "visualforcePage" -> "visualforcePages"
      [] category = "lightningPage"   -> "lightningPages"
      [] category = "recordType"      -> "recordTypes"
      [] OTHER                        -> category \o "s"

\* As if the keys of a list property were collected from the first document only.
compareArrayPropertyOfFirst(ps, propertyName, category, acc, inclUnchanged) ==
    LET summaryKey == SummaryKeyOf(category)
        allItems == SetAddAll(<<>>, ps[1][propertyName])
        item(name) ==
            LET val(p) == InSeq(p[propertyName], name)
                values == ValuesByProfile(ps, val)
            IN  DiffItem(propertyName \o "." \o name, category,
                         Undefined, Undefined, name,
                         values, determineDiffType(values))
        steps == [i \in DOMAIN allItems |-> Step(item(allItems[i]), inclUnchanged)]
    IN  Accumulate(acc, steps, summaryKey)

compareArrayProperty(ps, propertyName, category, acc, inclUnchanged) ==
    LET summaryKey == SummaryKeyOf(category)
        itemsOf(p) == p[propertyName]
        allItems == CollectKeys(ps, itemsOf, <<>>)
        item(name) ==
            LET val(p) == InSeq(p[propertyName], name)
                values == ValuesByProfile(ps, val)
            IN  DiffItem(propertyName \o "." \o name, category,
                         Undefined, Undefined, name,
                         values, determineDiffType(values))
        steps == [i \in DOMAIN allItems |-> Step(item(allItems[i]), inclUnchanged)]
    IN  Accumulate(acc, steps, summaryKey)

compareTabVisibilities(ps, acc, inclUnchanged) ==
    LET tabKeys(p) == p.tabVisibilities.keys
        allTabs == CollectKeys(ps, tabKeys, <<>>)
        item(tabName) ==
            LET val(p) == GetOr(p.tabVisibilities, tabName, "Hidden")
                values == ValuesByProfile(ps, val)
            IN  DiffItem("tabVisibilities." \o tabName, "tabVisibility",
                         Undefined, Undefined, tabName,
                         values, determineDiffTypeForStrings(values))
        steps == [i \in DOMAIN allTabs |-> Step(item(allTabs[i]), inclUnchanged)]
    IN  Accumulate(acc, steps, "tabVisibilities")

\* As if an app gave one DiffItem only, for its 'visible' flag.
compareAppVisibilitiesVisibleOnly(ps, acc, inclUnchanged) ==
    LET appKeys(p) == p.appVisibilities.keys
        allApps == CollectKeys(ps, appKeys, <<>>)
        visibleItem(appName) ==
            LET val(p) == IF Has(p.appVisibilities, appName)
                          THEN p.appVisibilities.val[appName].visible ELSE FALSE
                values == ValuesByProfile(ps, val)
            IN  DiffItem("appVisibilities." \o appName \o ".visible", "appVisibility",
                         Undefined, Undefined, appName \o " (Visible)",
                         values, determineDiffType(values))
        steps == [i \in DOMAIN allApps |-> Step(visibleItem(allApps[i]), inclUnchanged)]
    IN  Accumulate(acc, steps, "appVisibilities")

compareAppVisibilities(ps, acc, inclUnchanged) ==
    LET appKeys(p) == p.appVisibilities.keys
        allApps == CollectKeys(ps, appKeys, <<>>)
        visibleItem(appName) ==
            LET val(p) == IF Has(p.appVisibilities, appName)
                          THEN p.appVisibilities.val[appName].visible ELSE FALSE
                values == ValuesByProfile(ps, val)
            IN  DiffItem("appVisibilities." \o appName \o ".visible", "appVisibility",
                         Undefined, Undefined, appName \o " (Visible)",
                         values, determineDiffType(values))
        defaultItem(appName) ==
            LET val(p) == IF Has(p.appVisibilities, appName)
                          THEN p.appVisibilities.val[appName].default ELSE FALSE
                values == ValuesByProfile(ps, val)
            IN  DiffItem("appVisibilities." \o appName \o ".default", "appVisibility",
                         Undefined, Undefined, appName \o " (Default)",
                         values, determineDiffType(values))
        steps == Flatten([i \in DOMAIN allApps |->
                    << Step(visibleItem(allApps[i]), inclUnchanged),
                       Step(defaultItem(allApps[i]), inclUnchanged) >>])
    IN  Accumulate(acc, steps, "appVisibilities")

EmptySummary ==
    [objectPermissions |-> 0, fieldPermissions |-> 0, systemPermissions |-> 0,
     apexClasses |-> 0, visualforcePages |-> 0, lightningPages |-> 0,
     recordTypes |-> 0, tabVisibilities |-> 0, appVisibilities |-> 0]

\* DiffEngine.compare; the wall-clock timestamp of the result is left out.
compare(ps, inclUnchanged) ==
    LET a0 == [differences |-> <<>>, summary |-> EmptySummary]
        a1 == compareObjectPermissions(ps, a0, inclUnchanged)
        a2 == compareFieldPermissions(ps, a1, inclUnchanged)
        a3 == compareSystemPermissions(ps, a2, inclUnchanged)
        a4 == compareArrayProperty(ps, "apexClasses", "apexClass", a3, inclUnchanged)
        a5 == compareArrayProperty(ps, "visualforcePages", "visualforcePage", a4,
                                   inclUnchanged)
        a6 == compareArrayProperty(ps, "lightningPages", "lightningPage", a5,
                                   inclUnchanged)
        a7 == compareArrayProperty(ps, "recordTypes", "recordType", a6, inclUnchanged)
        a8 == compareTabVisibilities(ps, a7, inclUnchanged)
        a9 == compareAppVisibilities(ps, a8, inclUnchanged)
    IN  [profiles |-> [i \in DOMAIN ps |->
                          [id |-> ps[i].profileId, name |-> ps[i].profileName]],
         totalDifferences |-> CountChanged(a9.differences),
         differences |-> a9.differences,
         summary |-> a9.summary]

(***************************************************************************)
(* The Source Record Provider: the Salesforce org the service queries.     *)
(* An org is [known, owned, bulk, outages]: the profile ids that exist,    *)
(* those of them that own a permission set, whether the permission set of  *)
(* profile 1 carries BatchSize further Apex class grants, and the number   *)
(* of fetches of one request whose queries the org may fail.  The tables   *)
(* below are the rows the org holds; a query returns the rows its WHERE    *)
(* clause selects.                                                         *)
(***************************************************************************)
\* "const batchSize = 100" of getApexClassNames / getApexPageNames
BatchSize == 100

OrgProfileIds == {1, 2, 3}

ProfileName(p) == "Profile" \o ToString(p)
PermSetId(p) == 10 + p

RECURSIVE SortedSeqOfSet(_)
SortedSeqOfSet(S) ==
    IF S = {} THEN <<>>
    ELSE LET m == CHOOSE x \in S : \A y \in S : x <= y
         IN  <<m>> \o SortedSeqOfSet(S \ {m})

\* SELECT Id, Name, ... FROM Profile ORDER BY Name
ProfileRows(o) ==
    LET ids == SortedSeqOfSet(o.known)
    IN  [i \in DOMAIN ids |-> [Id |-> ids[i], Name |-> ProfileName(ids[i])]]

\* SELECT Id, ProfileId FROM PermissionSet WHERE IsOwnedByProfile = true
PermissionSetRows(o) ==
    LET ids == SortedSeqOfSet(o.owned)
    IN  [i \in DOMAIN ids |-> [Id |-> PermSetId(ids[i]), ProfileId |-> ids[i]]]

ObjectPermissionsRow(parent, sobject, c, r, e, d, va, ma) ==
    [ParentId |-> parent, SobjectType |-> sobject,
     PermissionsCreate |-> c, PermissionsRead |-> r, PermissionsEdit |-> e,
     PermissionsDelete |-> d, PermissionsViewAllRecords |-> va,
     PermissionsModifyAllRecords |-> ma]

ObjectPermissionsTable ==
    << ObjectPermissionsRow(11, "Account", TRUE, TRUE, TRUE, TRUE, FALSE, FALSE),
       ObjectPermissionsRow(11, "Contact", FALSE, TRUE, FALSE, FALSE, FALSE, FALSE),
       ObjectPermissionsRow(12, "Account", FALSE, TRUE, FALSE, FALSE, TRUE, FALSE),
       ObjectPermissionsRow(12, "Account", FALSE, TRUE, TRUE, FALSE, FALSE, FALSE),
       ObjectPermissionsRow(13, "Contact", FALSE, FALSE, FALSE, FALSE, FALSE, FALSE) >>

\* Field is "Object.Field"; it is kept as the list of its '.'-separated parts.
FieldPermissionsRow(parent, sobject, field, r, e) ==
    [ParentId |-> parent, SobjectType |-> sobject, Field |-> field,
     PermissionsRead |-> r, PermissionsEdit |-> e]

FieldPermissionsTable ==
    << FieldPermissionsRow(11, "Account", <<"Account", "Name">>, TRUE, TRUE),
       FieldPermissionsRow(12, "Lead", <<"Lead", "Email">>, TRUE, FALSE),
       FieldPermissionsRow(13, "Account", <<"Account", "Name">>, TRUE, FALSE),
       FieldPermissionsRow(13, "Account", <<"Phone">>, TRUE, TRUE),
       FieldPermissionsRow(12, "Account", <<"Account", "Phone">>, TRUE, FALSE) >>

\* The boolean Permissions* fields the describe call lists, and the fallback
\* list getPermissionSetWithSystemPerms uses when the describe call fails.
DescribedPermissionFields ==
    <<"ApiEnabled", "ViewSetup", "RunReports", "ModifyAllData", "ViewAllData",
      "ManageUsers">>
FallbackPermissionFields ==
    <<"ApiEnabled", "ViewSetup", "ModifyAllData", "ViewAllData", "ManageUsers">>

\* The value of flag Permissions<name> on the permission set of profile p.
FlagValue(p, name) ==
    CASE name = "ApiEnabled"    -> p \in {1, 2}
      [] name = "ViewSetup"     -> p \in {1, 3}
      [] name = "RunReports"    -> p = 2
      [] name = "ModifyAllData" -> FALSE
      [] name = "ViewAllData"   -> p = 1
      [] name = "ManageUsers"   -> TRUE

\* A queried PermissionSet record is the list of its (key, value) entries; a
\* key is kept as [prefix, rest], prefix being "Permissions" or "".
FieldKey(prefix, rest) == [prefix |-> prefix, rest |-> rest]

\* An entry is [key, type, value], type being typeof value.
Entry(key, type, value) == [key |-> key, type |-> type, value |-> value]

PermissionSetRecord(p, permissionFields) ==
    [Id |-> PermSetId(p), ProfileId |-> p,
     entries |->
        << Entry(FieldKey("", "Id"), "string", PermSetId(p)),
           Entry(FieldKey("", "Name"), "string", PermSetId(p)),
           Entry(FieldKey("", "ProfileId"), "string", p),
           Entry(FieldKey("", "IsOwnedByProfile"), "boolean", TRUE) >>
        \o [i \in DOMAIN permissionFields |->
              Entry(FieldKey("Permissions", permissionFields[i]), "boolean",
                    FlagValue(p, permissionFields[i]))]]

SetupEntityAccessRow(parent, entity, type) ==
    [ParentId |-> parent, SetupEntityId |-> entity, SetupEntityType |-> type]

SetupEntityAccessTable(o) ==
    << SetupEntityAccessRow(11, 101, "ApexClass"),
       SetupEntityAccessRow(11, 102, "ApexClass"),
       SetupEntityAccessRow(11, 103, "ApexClass"),
       SetupEntityAccessRow(11, 199, "ApexClass"),
       SetupEntityAccessRow(11, 202, "ApexPage"),
       SetupEntityAccessRow(11, 201, "ApexPage"),
       SetupEntityAccessRow(11, 301, "RecordType"),
       SetupEntityAccessRow(11, 401, "TabSet"),
       SetupEntityAccessRow(11, 501, "CustomTab"),
       SetupEntityAccessRow(11, 601, "CustomPermission"),
       SetupEntityAccessRow(12, 102, "ApexClass"),
       SetupEntityAccessRow(12, 201, "ApexPage"),
       SetupEntityAccessRow(12, 402, "TabSet"),
       SetupEntityAccessRow(12, 401, "TabSet"),
       SetupEntityAccessRow(12, 502, "CustomTab"),
       SetupEntityAccessRow(13, 101, "ApexClass"),
       SetupEntityAccessRow(13, 301, "RecordType"),
       SetupEntityAccessRow(13, 299, "ApexPage") >>
    \o (IF o.bulk
        THEN [i \in 1..BatchSize |-> SetupEntityAccessRow(11, 1000 + i, "ApexClass")]
        ELSE <<>>)

\* Tooling / data catalogs.  Class 103 is a namespaced class that carries the
\* same Name as class 101.
ApexClassCatalog ==
    << [Id |-> 101, Name |-> "Utils"], [Id |-> 102, Name |-> "Alpha"],
       [Id |-> 103, Name |-> "Utils"] >>
ApexPageCatalog == << [Id |-> 201, Name |-> "Home"], [Id |-> 202, Name |-> "about"] >>
RecordTypeCatalog ==
    << [Id |-> 301, Name |-> "Business", SobjectType |-> "Account",
        DeveloperName |-> "Biz"] >>
CustomTabCatalog ==
    << [Id |-> 501, DeveloperName |-> "Orders", SobjectName |-> ""],
       [Id |-> 502, DeveloperName |-> "", SobjectName |-> "Lead"] >>
CustomApplicationCatalog ==
    << [Id |-> 401, DeveloperName |-> "Sales_App", Label |-> "Sales"],
       [Id |-> 402, DeveloperName |-> "Admin", Label |-> ""] >>

RECURSIVE FoldLeft(_, _, _)
\* rows.forEach(row => acc = f(acc, row))
FoldLeft(f(_, _), acc, rows) ==
    IF rows = <<>> THEN acc
    ELSE IF Len(rows) = 1 THEN f(acc, rows[1])
    ELSE LET half == Len(rows) \div 2
             left == FoldLeft(f, acc, SubSeq(rows, 1, half))
         \* the rows are taken in order, the first half before the second
         \* (the test is always true: it has left evaluated first)
         IN  IF left = left
             THEN FoldLeft(f, left, SubSeq(rows, half + 1, Len(rows)))
             ELSE left

\* a || b for strings
OrElse(a, b) == IF a # "" THEN a ELSE b

\* new Map(rows.map(r => [keyOf(r), valueOf(r)])): a later row replaces an earlier one
MapOf(rows, keyOf(_), valueOf(_)) ==
    [k \in {keyOf(rows[i]) : i \in DOMAIN rows} |->
        valueOf(rows[CHOOSE i \in DOMAIN rows :
                        /\ keyOf(rows[i]) = k
                        /\ \A j \in DOMAIN rows : keyOf(rows[j]) = k => j <= i])]

EmptyMap == <<>>

(***************************************************************************)
(* SalesforceService (src/unnamed/part_013, salesforce.service.ts): what   *)
(* each fetch returns for an outcome of its queries.  An outcome is        *)
(* [st, batch]: st is "ok", or "failed" when a query of the fetch threw;   *)
(* batch is the batch whose query threw in a batched lookup.               *)
(***************************************************************************)
Outcome(st, batch) == [st |-> st, batch |-> batch]

\* getProfilePermissionSetIds: Map<ProfileId, PermissionSetId>
getProfilePermissionSetIds(o, ids) ==
    IF ids = <<>> THEN EmptyMap
    ELSE LET requested(r) == InSeq(ids, r.ProfileId)
             key(r) == r.ProfileId
             value(r) == r.Id
         IN  MapOf(SelectSeq(PermissionSetRows(o), requested), key, value)

\* getObjectPermissions: rejects when the query throws
getObjectPermissions(o, permissionSetIds) ==
    LET mine(r) == r.ParentId \in permissionSetIds
    IN  IF permissionSetIds = {} THEN <<>> ELSE SelectSeq(ObjectPermissionsTable, mine)

\* getFieldPermissions: "catch { return [] }"
getFieldPermissions(o, permissionSetIds, outcome) ==
    LET mine(r) == r.ParentId \in permissionSetIds
    IN  IF permissionSetIds = {} THEN <<>>
        ELSE IF outcome.st = "failed" THEN <<>>
        ELSE SelectSeq(FieldPermissionsTable, mine)

\* getPermissionSetWithSystemPerms: the field list comes from the describe
\* call, or is the fallback list when that call throws (st = "fallback");
\* rejects when the query throws
getPermissionSetWithSystemPerms(o, permissionSetIds, outcome) ==
    LET permissionFields == IF outcome.st = "fallback"
                            THEN FallbackPermissionFields
                            ELSE DescribedPermissionFields
        ids == SortedSeqOfSet({p \in o.owned : PermSetId(p) \in permissionSetIds})
    IN  IF permissionSetIds = {} THEN <<>>
        ELSE [i \in DOMAIN ids |-> PermissionSetRecord(ids[i], permissionFields)]

\* getSetupEntityAccess: "catch { return [] }"
getSetupEntityAccess(o, permissionSetIds, outcome) ==
    LET mine(r) == r.ParentId \in permissionSetIds
    IN  IF permissionSetIds = {} THEN <<>>
        ELSE IF outcome.st = "failed" THEN <<>>
        ELSE SelectSeq(SetupEntityAccessTable(o), mine)

\* The number of batches a lookup of n ids takes.
NumBatches(n) == (n + BatchSize - 1) \div BatchSize

\* ids.slice(i, i + batchSize) for the b-th batch
Batch(ids, b) == SubSeq(ids, (b - 1) * BatchSize + 1,
                        IF b * BatchSize < Len(ids) THEN b * BatchSize ELSE Len(ids))

\* getApexClassNames / getApexPageNames: one query per batch of BatchSize ids,
\* each result row set into `result`; the loop is inside one try, so a throw
\* in batch b ends the loop and `result` is returned as filled so far.
BatchedNames(catalog, ids, outcome) ==
    LET done == IF outcome.st = "failed" THEN outcome.batch - 1 ELSE NumBatches(Len(ids))
        queried == Flatten([b \in 1..done |-> Batch(ids, b)])
        resolved == SelectSeq(catalog, LAMBDA r : InSeq(queried, r.Id))
    IN  IF ids = <<>> THEN EmptyMap
        ELSE MapOf(resolved, LAMBDA r : r.Id, LAMBDA r : r.Name)

getApexClassNames(classIds, outcome) == BatchedNames(ApexClassCatalog, classIds, outcome)
getApexPageNames(pageIds, outcome) == BatchedNames(ApexPageCatalog, pageIds, outcome)

\* getRecordTypes / getCustomTabs / getCustomApps: the whole catalog, or an
\* empty Map when the query throws
getRecordTypes(outcome) ==
    IF outcome.st = "failed" THEN EmptyMap
    ELSE MapOf(RecordTypeCatalog, LAMBDA r : r.Id,
               LAMBDA r : r.SobjectType \o "." \o r.DeveloperName)

getCustomTabs(outcome) ==
    IF outcome.st = "failed" THEN EmptyMap
    ELSE MapOf(CustomTabCatalog, LAMBDA r : r.Id,
               LAMBDA r : OrElse(r.DeveloperName, OrElse(r.SobjectName, ToString(r.Id))))

getCustomApps(outcome) ==
    IF outcome.st = "failed" THEN EmptyMap
    ELSE MapOf(CustomApplicationCatalog, LAMBDA r : r.Id,
               LAMBDA r : OrElse(r.Label, r.DeveloperName))

(***************************************************************************)
(* ProfileNormalizer (src/lib/normalizer.ts; normalizer.service.ts has the *)
(* same grouping and building code).                                       *)
(***************************************************************************)
\* The UTF-16 code units of the names that occur: Array.prototype.sort
\* without a comparator orders strings by them.
CodeUnits(name) ==
    CASE name = "Utils"       -> <<85, 116, 105, 108, 115>>
      [] name = "Alpha"       -> <<65, 108, 112, 104, 97>>
      [] name = "Home"        -> <<72, 111, 109, 101>>
      [] name = "about"       -> <<97, 98, 111, 117, 116>>
      [] name = "Account.Biz" -> <<65, 99, 99, 111, 117, 110, 116, 46, 66, 105, 122>>
      [] name = "Sales"       -> <<83, 97, 108, 101, 115>>
      [] name = "Admin"       -> <<65, 100, 109, 105, 110>>
      [] name = "Orders"      -> <<79, 114, 100, 101, 114, 115>>
      [] name = "Lead"        -> <<76, 101, 97, 100>>
      [] name = "Unknown"     -> <<85, 110, 107, 110, 111, 119, 110>>

RECURSIVE UnitsLess(_, _)
UnitsLess(a, b) ==
    IF b = <<>> THEN FALSE
    ELSE IF a = <<>> THEN TRUE
    ELSE IF Head(a) # Head(b) THEN Head(a) < Head(b)
    ELSE UnitsLess(Tail(a), Tail(b))

\* x < y on strings
StringLess(x, y) == UnitsLess(CodeUnits(x), CodeUnits(y))

RECURSIVE InsertSorted(_, _)
InsertSorted(sorted, x) ==
    IF sorted = <<>> THEN <<x>>
    ELSE IF StringLess(x, Head(sorted)) THEN <<x>> \o sorted
    ELSE <<Head(sorted)>> \o InsertSorted(Tail(sorted), x)

\* xs.sort(): every element kept, ascending by code units
Sort(xs) == FoldLeft(InsertSorted, <<>>, xs)

\* map.has(k); map.get(k)
MapHas(m, k) == k \in DOMAIN m
\* As if a missing name were replaced by a placeholder.
MapGetOrPlaceholder(m, k) == IF MapHas(m, k) THEN m[k] ELSE "Unknown"
MapGet(m, k) == IF MapHas(m, k) THEN m[k] ELSE Undefined

\* "if (name)" on a looked-up string
Truthy(x) == x # Undefined /\ x # ""

EmptyBundle ==
    [objectPermissions |-> <<>>, fieldPermissions |-> <<>>,
     systemPermissions |-> EmptyObject, apexClasses |-> <<>>,
     visualforcePages |-> <<>>, lightningPages |-> <<>>, recordTypes |-> <<>>,
     tabs |-> <<>>, apps |-> <<>>]

\* profileIds.forEach(id => result.set(id, {...}))
InitBundles(ids, permSetToProfileMap) ==
    LET set(res, id) == Put(res, id, EmptyBundle)
    IN  FoldLeft(set, EmptyObject, ids)

\* As if a record were pushed to the bundle of every requested profile.
PushToEvery(res, profileId, list, x) ==
    LET push(r, id) == Put(r, id, [r.val[id] EXCEPT ![list] = Append(@, x)])
    IN  FoldLeft(push, res, res.keys)

\* As if a Visualforce page were listed as a Lightning page as well.
PushToLightningToo(res, profileId, list, x) ==
    IF Has(res, profileId)
    THEN Put(res, profileId,
             IF list = "visualforcePages"
             THEN [res.val[profileId] EXCEPT !.visualforcePages = Append(@, x),
                                             !.lightningPages = Append(@, x)]
             ELSE [res.val[profileId] EXCEPT ![list] = Append(@, x)])
    ELSE res

\* result.get(profileId)?.<list>.push(x)
PushTo(res, profileId, list, x) ==
    IF Has(res, profileId)
    THEN Put(res, profileId, [res.val[profileId] EXCEPT ![list] = Append(@, x)])
    ELSE res

\* the systemPerms object built from one PermissionSet record
SystemPermsOf(permSet) ==
    LET set(sp, e) == IF e.key.prefix = "Permissions" /\ e.type = "boolean"
                      THEN Put(sp, e.key.rest, e.value)
                      ELSE sp
    IN  FoldLeft(set, EmptyObject, permSet.entries)

groupDataByProfile(ids, permSetToProfileMap, objectPermissions, fieldPermissions, permissionSets, setupEntityAccess, apexClassNames, apexPageNames, recordTypeNames, customTabNames, customAppNames) ==
    LET route(res, row, list) ==
            IF MapHas(permSetToProfileMap, row.ParentId)
            THEN PushTo(res, permSetToProfileMap[row.ParentId], list, row)
            ELSE res
        objStep(res, row) == route(res, row, "objectPermissions")
        fieldStep(res, row) == route(res, row, "fieldPermissions")
        sysStep(res, permSet) ==
            IF Has(res, permSet.ProfileId)
            THEN Put(res, permSet.ProfileId,
                     [res.val[permSet.ProfileId] EXCEPT
                         !.systemPermissions = SystemPermsOf(permSet)])
            ELSE res
        named(res, profileId, list, names, access) ==
            LET name == MapGet(names, access.SetupEntityId)
            IN  IF Truthy(name) THEN PushTo(res, profileId, list, name) ELSE res
        accessStep(res, access) ==
            LET profileId == permSetToProfileMap[access.ParentId]
                type == access.SetupEntityType
            IN  IF ~MapHas(permSetToProfileMap, access.ParentId) THEN res
                ELSE IF ~Has(res, profileId) THEN res
                ELSE CASE type = "ApexClass" ->
                            named(res, profileId, "apexClasses", apexClassNames, access)
                       [] type = "ApexPage" ->
                            named(res, profileId, "visualforcePages", apexPageNames, access)
                       [] type = "RecordType" ->
                            named(res, profileId, "recordTypes", recordTypeNames, access)
                       [] type = "TabSet" ->
                            named(res, profileId, "apps", customAppNames, access)
                       [] type = "CustomTab" ->
                            named(res, profileId, "tabs", customTabNames, access)
                       [] OTHER -> res
        r0 == InitBundles(ids, permSetToProfileMap)
        r1 == FoldLeft(objStep, r0, objectPermissions)
        r2 == FoldLeft(fieldStep, r1, fieldPermissions)
        r3 == FoldLeft(sysStep, r2, permissionSets)
    IN  FoldLeft(accessStep, r3, setupEntityAccess)

\* As if an object known by its field grants only were given read access.
DefaultPermissionsReadable ==
    [read |-> TRUE, create |-> FALSE, edit |-> FALSE, delete |-> FALSE,
     viewAll |-> FALSE, modifyAll |-> FALSE]

DefaultPermissions ==
    [read |-> FALSE, create |-> FALSE, edit |-> FALSE, delete |-> FALSE,
     viewAll |-> FALSE, modifyAll |-> FALSE]

\* As if an object-permission row for an object already entered were skipped.
buildNormalizedProfileFirstRow(profile, data) ==
    LET objStep(objects, objPerm) ==
            IF Has(objects, objPerm.SobjectType) THEN objects
            ELSE
            Put(objects, objPerm.SobjectType,
                [permissions |->
                    [read |-> objPerm.PermissionsRead,
                     create |-> objPerm.PermissionsCreate,
                     edit |-> objPerm.PermissionsEdit,
                     delete |-> objPerm.PermissionsDelete,
                     viewAll |-> objPerm.PermissionsViewAllRecords,
                     modifyAll |-> objPerm.PermissionsModifyAllRecords],
                 fields |-> EmptyObject])
        fieldStep(objects, fieldPerm) ==
            LET objectName == fieldPerm.SobjectType
                \* Field.split('.')[1] || Field
                fieldName == IF Len(fieldPerm.Field) >= 2 THEN fieldPerm.Field[2]
                             ELSE fieldPerm.Field[1]
                withObject == IF Has(objects, objectName) THEN objects
                              ELSE Put(objects, objectName,
                                       [permissions |-> DefaultPermissions,
                                        fields |-> EmptyObject])
                access == withObject.val[objectName]
            IN  Put(withObject, objectName,
                    [access EXCEPT !.fields =
                        Put(@, fieldName, [read |-> fieldPerm.PermissionsRead,
                                           edit |-> fieldPerm.PermissionsEdit])])
        tabStep(tabs, tab) == Put(tabs, tab, "Visible")
        appStep(apps, app) == Put(apps, app, [visible |-> TRUE, default |-> FALSE])
        objects0 == FoldLeft(objStep, EmptyObject, data.objectPermissions)
    IN  [profileId |-> profile.Id, profileName |-> profile.Name,
         objects |-> FoldLeft(fieldStep, objects0, data.fieldPermissions),
         systemPermissions |-> data.systemPermissions,
         apexClasses |-> Sort(data.apexClasses),
         visualforcePages |-> Sort(data.visualforcePages),
         lightningPages |-> Sort(data.lightningPages),
         recordTypes |-> Sort(data.recordTypes),
         tabVisibilities |-> FoldLeft(tabStep, EmptyObject, Sort(data.tabs)),
         appVisibilities |-> FoldLeft(appStep, EmptyObject, Sort(data.apps)),
         userPermissions |-> data.systemPermissions]

buildNormalizedProfile(profile, data) ==
    LET objStep(objects, objPerm) ==
            Put(objects, objPerm.SobjectType,
                [permissions |->
                    [read |-> objPerm.PermissionsRead,
                     create |-> objPerm.PermissionsCreate,
                     edit |-> objPerm.PermissionsEdit,
                     delete |-> objPerm.PermissionsDelete,
                     viewAll |-> objPerm.PermissionsViewAllRecords,
                     modifyAll |-> objPerm.PermissionsModifyAllRecords],
                 fields |-> EmptyObject])
        fieldStep(objects, fieldPerm) ==
            LET objectName == fieldPerm.SobjectType
                \* Field.split('.')[1] || Field
                fieldName == IF Len(fieldPerm.Field) >= 2 THEN fieldPerm.Field[2]
                             ELSE fieldPerm.Field[1]
                withObject == IF Has(objects, objectName) THEN objects
                              ELSE Put(objects, objectName,
                                       [permissions |-> DefaultPermissions,
                                        fields |-> EmptyObject])
                access == withObject.val[objectName]
            IN  Put(withObject, objectName,
                    [access EXCEPT !.fields =
                        Put(@, fieldName, [read |-> fieldPerm.PermissionsRead,
                                           edit |-> fieldPerm.PermissionsEdit])])
        tabStep(tabs, tab) == Put(tabs, tab, "Visible")
        appStep(apps, app) == Put(apps, app, [visible |-> TRUE, default |-> FALSE])
        objects0 == FoldLeft(objStep, EmptyObject, data.objectPermissions)
    IN  [profileId |-> profile.Id, profileName |-> profile.Name,
         objects |-> FoldLeft(fieldStep, objects0, data.fieldPermissions),
         systemPermissions |-> data.systemPermissions,
         apexClasses |-> Sort(data.apexClasses),
         visualforcePages |-> Sort(data.visualforcePages),
         lightningPages |-> Sort(data.lightningPages),
         recordTypes |-> Sort(data.recordTypes),
         tabVisibilities |-> FoldLeft(tabStep, EmptyObject, Sort(data.tabs)),
         appVisibilities |-> FoldLeft(appStep, EmptyObject, Sort(data.apps)),
         userPermissions |-> data.systemPermissions]

(***************************************************************************)
(* The Express copy of the ProfileNormalizer (normalizer.service.ts).  Its *)
(* groupDataByProfile, its step 6 and the SalesforceService it drives      *)
(* (salesforce.service.ts) differ from the serverless copy in loop syntax  *)
(* and logging only and are the operators above; its buildNormalizedProfile*)
(* and the catch it puts on every lookup of step 4 are written differently *)
(* and are the operators below.                                            *)
(***************************************************************************)
\* buildObjectPermission(raw)
buildObjectPermission(raw) ==
    [read |-> raw.PermissionsRead, create |-> raw.PermissionsCreate,
     edit |-> raw.PermissionsEdit, delete |-> raw.PermissionsDelete,
     viewAll |-> raw.PermissionsViewAllRecords,
     modifyAll |-> raw.PermissionsModifyAllRecords]

getDefaultObjectPermission ==
    [read |-> FALSE, create |-> FALSE, edit |-> FALSE, delete |-> FALSE,
     viewAll |-> FALSE, modifyAll |-> FALSE]

\* As if the Express copy left the permissions of an object already entered alone.
buildNormalizedProfileServiceKeeping(profile, data) ==
    LET objStep(objects, objPerm) ==
            IF ~Has(objects, objPerm.SobjectType)
            THEN Put(objects, objPerm.SobjectType,
                     [permissions |-> buildObjectPermission(objPerm),
                      fields |-> EmptyObject])
            ELSE objects
        fieldStep(objects, fieldPerm) ==
            LET objectName == fieldPerm.SobjectType
                fieldName == IF Len(fieldPerm.Field) >= 2 THEN fieldPerm.Field[2]
                             ELSE fieldPerm.Field[1]
                withObject == IF Has(objects, objectName) THEN objects
                              ELSE Put(objects, objectName,
                                       [permissions |-> getDefaultObjectPermission,
                                        fields |-> EmptyObject])
                access == withObject.val[objectName]
            IN  Put(withObject, objectName,
                    [access EXCEPT !.fields =
                        Put(@, fieldName, [read |-> fieldPerm.PermissionsRead,
                                           edit |-> fieldPerm.PermissionsEdit])])
        tabStep(tabs, tab) == Put(tabs, tab, "Visible")
        appStep(apps, app) == Put(apps, app, [visible |-> TRUE, default |-> FALSE])
        objects0 == FoldLeft(objStep, EmptyObject, data.objectPermissions)
    IN  [profileId |-> profile.Id, profileName |-> profile.Name,
         objects |-> FoldLeft(fieldStep, objects0, data.fieldPermissions),
         systemPermissions |-> data.systemPermissions,
         apexClasses |-> Sort(data.apexClasses),
         visualforcePages |-> Sort(data.visualforcePages),
         lightningPages |-> Sort(data.lightningPages),
         recordTypes |-> Sort(data.recordTypes),
         tabVisibilities |-> FoldLeft(tabStep, EmptyObject, Sort(data.tabs)),
         appVisibilities |-> FoldLeft(appStep, EmptyObject, Sort(data.apps)),
         userPermissions |-> data.systemPermissions]

\* buildNormalizedProfile of the Express copy: an object-permission row for an
\* object already entered replaces the permissions of the entry.
buildNormalizedProfileService(profile, data) ==
    LET objStep(objects, objPerm) ==
            IF ~Has(objects, objPerm.SobjectType)
            THEN Put(objects, objPerm.SobjectType,
                     [permissions |-> buildObjectPermission(objPerm),
                      fields |-> EmptyObject])
            ELSE Put(objects, objPerm.SobjectType,
                     [objects.val[objPerm.SobjectType] EXCEPT
                         !.permissions = buildObjectPermission(objPerm)])
        fieldStep(objects, fieldPerm) ==
            LET objectName == fieldPerm.SobjectType
                fieldName == IF Len(fieldPerm.Field) >= 2 THEN fieldPerm.Field[2]
                             ELSE fieldPerm.Field[1]
                withObject == IF Has(objects, objectName) THEN objects
                              ELSE Put(objects, objectName,
                                       [permissions |-> getDefaultObjectPermission,
                                        fields |-> EmptyObject])
                access == withObject.val[objectName]
            IN  Put(withObject, objectName,
                    [access EXCEPT !.fields =
                        Put(@, fieldName, [read |-> fieldPerm.PermissionsRead,
                                           edit |-> fieldPerm.PermissionsEdit])])
        tabStep(tabs, tab) == Put(tabs, tab, "Visible")
        appStep(apps, app) == Put(apps, app, [visible |-> TRUE, default |-> FALSE])
        objects0 == FoldLeft(objStep, EmptyObject, data.objectPermissions)
    IN  [profileId |-> profile.Id, profileName |-> profile.Name,
         objects |-> FoldLeft(fieldStep, objects0, data.fieldPermissions),
         systemPermissions |-> data.systemPermissions,
         apexClasses |-> Sort(data.apexClasses),
         visualforcePages |-> Sort(data.visualforcePages),
         lightningPages |-> Sort(data.lightningPages),
         recordTypes |-> Sort(data.recordTypes),
         tabVisibilities |-> FoldLeft(tabStep, EmptyObject, Sort(data.tabs)),
         appVisibilities |-> FoldLeft(appStep, EmptyObject, Sort(data.apps)),
         userPermissions |-> data.systemPermissions]

(***************************************************************************)
(* The documents compare is run on.  A NormalizedProfile (types.ts) is     *)
(* [profileId, profileName, objects, systemPermissions, apexClasses,       *)
(*  visualforcePages, lightningPages, recordTypes, tabVisibilities,        *)
(*  appVisibilities, userPermissions].  Five document shapes span, for     *)
(* every pass, a key that is granted, explicitly denied and absent.        *)
(***************************************************************************)
Obj(keys, val) == [keys |-> keys, val |-> val]

ObjectPermission(r, c, e, d, v, m) ==
    [read |-> r, create |-> c, edit |-> e, delete |-> d, viewAll |-> v, modifyAll |-> m]

NormalizedProfile(id, objects, sys, classes, pages, lightning, recordTypes, tabs, apps) ==
    [profileId |-> id, profileName |-> "Profile" \o ToString(id),
     objects |-> objects, systemPermissions |-> sys,
     apexClasses |-> classes, visualforcePages |-> pages,
     lightningPages |-> lightning, recordTypes |-> recordTypes,
     tabVisibilities |-> tabs, appVisibilities |-> apps,
     userPermissions |-> sys]

DocShapes == 1..5

Doc(id, shape) ==
    CASE shape = 1 ->   \* nothing granted, nothing listed
           NormalizedProfile(id, EmptyObject, EmptyObject, <<>>, <<>>, <<>>, <<>>,
                             EmptyObject, EmptyObject)
      [] shape = 2 ->   \* everything granted
           NormalizedProfile(id,
               Obj(<<"Account">>,
                   [Account |-> [permissions |-> ObjectPermission(TRUE, TRUE, TRUE, TRUE, TRUE, TRUE),
                                 fields |-> Obj(<<"Name">>, [Name |-> [read |-> TRUE, edit |-> TRUE]])]]),
               Obj(<<"ApiEnabled", "ViewSetup">>, [ApiEnabled |-> TRUE, ViewSetup |-> TRUE]),
               <<"Alpha", "Utils">>, <<"Home">>, <<"Dashboard">>, <<"Account.Biz">>,
               Obj(<<"Orders">>, [Orders |-> "Visible"]),
               Obj(<<"Sales">>, [Sales |-> [visible |-> TRUE, default |-> TRUE]]))
      [] shape = 3 ->   \* partial grants, Contact before Account
           NormalizedProfile(id,
               Obj(<<"Contact", "Account">>,
                   [Contact |-> [permissions |-> ObjectPermission(TRUE, FALSE, FALSE, FALSE, FALSE, FALSE),
                                 fields |-> EmptyObject],
                    Account |-> [permissions |-> ObjectPermission(TRUE, FALSE, TRUE, TRUE, FALSE, FALSE),
                                 fields |-> Obj(<<"Name">>, [Name |-> [read |-> TRUE, edit |-> FALSE]])]]),
               Obj(<<"ApiEnabled">>, [ApiEnabled |-> FALSE]),
               <<"Utils">>, <<>>, <<>>, <<"Account.Biz">>,
               Obj(<<"Orders">>, [Orders |-> "Visible"]),
               Obj(<<"Sales">>, [Sales |-> [visible |-> TRUE, default |-> FALSE]]))
      [] shape = 4 ->   \* explicit denials
           NormalizedProfile(id,
               Obj(<<"Account">>,
                   [Account |-> [permissions |-> ObjectPermission(FALSE, FALSE, FALSE, FALSE, FALSE, FALSE),
                                 fields |-> EmptyObject]]),
               Obj(<<"ViewSetup", "ApiEnabled">>, [ViewSetup |-> TRUE, ApiEnabled |-> FALSE]),
               <<"Alpha">>, <<"Home">>, <<>>, <<>>,
               Obj(<<"Orders">>, [Orders |-> "DefaultOff"]),
               EmptyObject)
      [] shape = 5 ->   \* field grants only, on an object with default permissions
           NormalizedProfile(id,
               Obj(<<"Contact">>,
                   [Contact |-> [permissions |-> ObjectPermission(FALSE, FALSE, FALSE, FALSE, FALSE, FALSE),
                                 fields |-> Obj(<<"Email">>, [Email |-> [read |-> TRUE, edit |-> TRUE]])]]),
               EmptyObject,
               <<>>, <<>>, <<"Dashboard">>, <<>>,
               EmptyObject,
               Obj(<<"Sales">>, [Sales |-> [visible |-> TRUE, default |-> FALSE]]))

\* The lists compare is called with: n documents with the profile ids 1..n,
\* followed, when again > 0, by the document of profile `again` once more (a
\* request may name one profile twice; a profile id names one document).
CompareInput(n, shapeOf, again) ==
    [i \in 1..n |-> Doc(i, shapeOf[i])]
        \o (IF again = 0 THEN <<>> ELSE <<Doc(again, shapeOf[again])>>)

(***************************************************************************)
(* The OAuth flow (src/unnamed/part_013: getAuthorizationUrl, getPkceData,  *)
(* exchangeCodeForToken; src/api/auth/callback.ts; the Express copies are   *)
(* salesforce.service.ts and auth.routes.ts).  A state is the random string *)
(* generateState returns, each with the verifier generated along with it.   *)
(* An authorization code is known by the authorization request it was       *)
(* granted for: one that carried the code_challenge of a state, or one that *)
(* carried no code_challenge.                                               *)
(***************************************************************************)
\* Largest value of the clock.
MaxTime == 3
\* "10 * 60 * 1000": the lifetime of a stored state, in ticks
Lifetime == 2

States == {"s1", "s2"}
VerifierOf(state) == "verifier-" \o state

\* The state parameter of a callback request: a state, a string that is no
\* state of this service, or none.
StateParams == States \cup {"forged", Undefined}
\* The code parameter of a callback request.
CodeFor(state) == "code-" \o state
PlainCode == "code-without-challenge"
Codes == {CodeFor(state) : state \in States} \cup {PlainCode, "code-invalid"}

AuthIdle ==
    /\ pkceStore = EmptyMap
    /\ now = 0
    /\ sessions = {}
    /\ issuedAt = EmptyMap
    /\ handedOut = [state \in States |-> 0]

\* getAuthorizationUrl: a new state is stored with its verifier, then the
\* entries past their expiry are dropped.
GetAuthorizationUrl ==
    /\ \E state \in States \ DOMAIN issuedAt :
            /\ LET stored == (state :> [verifier |-> VerifierOf(state),
                                        expires |-> now + Lifetime]) @@ pkceStore
               IN  pkceStore' = [key \in {k \in DOMAIN stored : ~(stored[k].expires < now)}
                                    |-> stored[key]]
            /\ issuedAt' = (state :> now) @@ issuedAt
    /\ UNCHANGED <<now, sessions, handedOut>>
    /\ UNCHANGED compareVars

Tick ==
    /\ now < MaxTime
    /\ now' = now + 1
    /\ UNCHANGED <<pkceStore, sessions, issuedAt, handedOut>>
    /\ UNCHANGED compareVars

\* getPkceData(state): the verifier, or Undefined for null
getPkceData(state) ==
    IF ~MapHas(pkceStore, state) THEN Undefined
    ELSE IF pkceStore[state].expires < now THEN Undefined
    ELSE pkceStore[state].verifier

\* The answers the token endpoint can give to exchangeCodeForToken: a code
\* granted for a request with a code_challenge is redeemed with the matching
\* verifier only, a code granted for a request without one is redeemed
\* without verifier (with one, the endpoint may answer either way); a code
\* is redeemed once.
TokenAnswers(code, codeVerifier) ==
    IF code = "code-invalid" \/ \E s \in sessions : s.code = code THEN {FALSE}
    ELSE IF code = PlainCode
         THEN (IF codeVerifier = Undefined THEN {TRUE} ELSE {TRUE, FALSE})
         ELSE {\E state \in States : code = CodeFor(state) /\ codeVerifier = VerifierOf(state)}

\* The callback handler, called with a code and a state parameter: the
\* verifier is looked up (and the entry dropped), the code is exchanged, and
\* the session is stored when the exchange succeeds.
Callback(code, state) ==
    /\ code \in {CodeFor(issued) : issued \in DOMAIN issuedAt} \cup {PlainCode, "code-invalid"}
    /\ LET codeVerifier == IF state = Undefined THEN Undefined ELSE getPkceData(state)
       IN  /\ pkceStore' = [key \in DOMAIN pkceStore \ {state} |-> pkceStore[key]]
           /\ handedOut' = IF codeVerifier = Undefined THEN handedOut
                           ELSE [handedOut EXCEPT ![state] = @ + 1]
           /\ \E ok \in TokenAnswers(code, codeVerifier) :
                    sessions' = IF ok
                                THEN sessions \cup {[code |-> code, state |-> state,
                                                     at |-> now,
                                                     codeVerifier |-> codeVerifier]}
                                ELSE sessions
    /\ UNCHANGED <<now, issuedAt>>
    /\ UNCHANGED compareVars

(***************************************************************************)
(* The compare request: the handler of POST /api/profiles/compare          *)
(* (src/unnamed/part_011, src/unnamed/part_000) and the awaits of          *)
(* ProfileNormalizer.normalizeProfiles it runs.                            *)
(***************************************************************************)
\* "profileIds.length > 10"
MaxProfileIds == 10

\* Longest profileIds list of a request, and the number of fetches of one
\* request whose queries may throw.
MaxRequest == 3
MaxFailures == 1

\* Id 0 stands for a text /^[a-zA-Z0-9]{15,18}$/ rejects.
WellFormedId(id) == id # 0

RECURSIVE SeqsUpTo(_, _)
\* The sequences over S of length 1..n.
SeqsUpTo(S, n) ==
    IF n = 0 THEN {}
    ELSE LET shorter == SeqsUpTo(S, n - 1)
         IN  {<<x>> : x \in S} \cup shorter \cup {Append(r, x) : r \in shorter, x \in S}

Requests ==
    LET wellFormed == SeqsUpTo(OrgProfileIds, MaxRequest)
    IN  wellFormed \cup {Append(r, 0) : r \in SeqsUpTo(OrgProfileIds, MaxRequest - 1)}

Orgs ==
    {o \in [known : {OrgProfileIds, {1, 2}}, owned : SUBSET OrgProfileIds, bulk : BOOLEAN,
             outages : {MaxFailures}] :
        /\ o.owned \subseteq o.known
        /\ Cardinality(o.known \ o.owned) <= 1
        /\ o.bulk => o.owned = OrgProfileIds}

FirstGroup == {"getObjectPermissions", "getFieldPermissions",
               "getPermissionSetWithSystemPerms", "getSetupEntityAccess"}
SecondGroup == {"getApexClassNames", "getApexPageNames", "getRecordTypes",
                "getCustomTabs", "getCustomApps"}
Fetches == {"getAllProfiles", "getProfilePermissionSetIds"} \cup FirstGroup \cup SecondGroup

Idle == Outcome("idle", 0)
Pending == Outcome("pending", 0)
Settled(f) == fetch[f].st \in {"ok", "failed", "fallback"}
Failures == Cardinality({f \in Fetches : fetch[f].st \in {"failed", "fallback"}})

\* The locals of normalizeProfiles, as the settled fetches give them.
profileToPermSetMap == getProfilePermissionSetIds(org, profileIds)
permissionSetIds == {profileToPermSetMap[p] : p \in DOMAIN profileToPermSetMap}
permSetToProfileMap ==
    [ps \in permissionSetIds |->
        CHOOSE p \in DOMAIN profileToPermSetMap : profileToPermSetMap[p] = ps]

\* results[k].status === 'fulfilled' ? results[k].value : []
objectPermissions ==
    IF fetch["getObjectPermissions"].st = "failed" THEN <<>>
    ELSE getObjectPermissions(org, permissionSetIds)
fieldPermissions ==
    getFieldPermissions(org, permissionSetIds, fetch["getFieldPermissions"])
permissionSets ==
    IF fetch["getPermissionSetWithSystemPerms"].st = "failed" THEN <<>>
    ELSE getPermissionSetWithSystemPerms(org, permissionSetIds,
                                         fetch["getPermissionSetWithSystemPerms"])
\* As if one rejected fetch of the group emptied every input of the group.
setupEntityAccessAllOrNothing ==
    IF \E f \in FirstGroup : fetch[f].st = "failed" THEN <<>>
    ELSE getSetupEntityAccess(org, permissionSetIds, fetch["getSetupEntityAccess"])

setupEntityAccess ==
    getSetupEntityAccess(org, permissionSetIds, fetch["getSetupEntityAccess"])

\* setupEntityAccess.filter(e => e.SetupEntityType === type).map(e => e.SetupEntityId)
EntityIds(type) ==
    LET ofType == SelectSeq(setupEntityAccess, LAMBDA e : e.SetupEntityType = type)
    IN  [i \in DOMAIN ofType |-> ofType[i].SetupEntityId]
apexClassIds == EntityIds("ApexClass")
apexPageIds == EntityIds("ApexPage")

apexClassNames == getApexClassNames(apexClassIds, fetch["getApexClassNames"])
apexPageNames == getApexPageNames(apexPageIds, fetch["getApexPageNames"])
recordTypeNames == getRecordTypes(fetch["getRecordTypes"])
customTabNames == getCustomTabs(fetch["getCustomTabs"])
customAppNames == getCustomApps(fetch["getCustomApps"])

profileData ==
    groupDataByProfile(profileIds, permSetToProfileMap, objectPermissions,
                       fieldPermissions, permissionSets, setupEntityAccess,
                       apexClassNames, apexPageNames, recordTypeNames,
                       customTabNames, customAppNames)

\* Step 6: one document per requested id that is a known profile with a bundle
normalizedProfiles ==
    LET step(out, profileId) ==
            IF MapHas(thisProfiles, profileId) /\ Has(profileData, profileId)
            THEN Append(out, buildNormalizedProfile(thisProfiles[profileId],
                                                    profileData.val[profileId]))
            ELSE out
    IN  FoldLeft(step, <<>>, profileIds)

\* The Express copy, step 4: "lookup(...).catch(() => new Map())".  A lookup
\* catches the errors of its own queries, so its promise is never rejected.
OrEmptyMap(f, names) == IF fetch[f].st = "rejected" THEN EmptyMap ELSE names

\* The Express copy, steps 5 and 6.
normalizedProfilesService ==
    LET data == groupDataByProfile(profileIds, permSetToProfileMap, objectPermissions,
                    fieldPermissions, permissionSets, setupEntityAccess,
                    OrEmptyMap("getApexClassNames", apexClassNames),
                    OrEmptyMap("getApexPageNames", apexPageNames),
                    OrEmptyMap("getRecordTypes", recordTypeNames),
                    OrEmptyMap("getCustomTabs", customTabNames),
                    OrEmptyMap("getCustomApps", customAppNames))
        step(out, profileId) ==
            IF ~MapHas(thisProfiles, profileId) THEN out
            ELSE IF ~Has(data, profileId) THEN out
            ELSE Append(out, buildNormalizedProfileService(thisProfiles[profileId],
                                                           data.val[profileId]))
    IN  FoldLeft(step, <<>>, profileIds)

\* The ways the queries of fetch f can end: a fetch that returns before its
\* first query cannot fail; a batched lookup fails in one of its batches.
Outcomes(f) ==
    LET fails == 
            CASE f \in {"getAllProfiles", "getProfilePermissionSetIds", "getRecordTypes",
                        "getCustomTabs", "getCustomApps"} ->
                    {Outcome("failed", 0)}
              [] f \in FirstGroup ->
                    IF permissionSetIds = {} THEN {}
                    ELSE {Outcome("failed", 0)} \cup
                         (IF f = "getPermissionSetWithSystemPerms"
                          THEN {Outcome("fallback", 0)} ELSE {})
              [] f = "getApexClassNames" ->
                    {Outcome("failed", b) : b \in 1..NumBatches(Len(apexClassIds))}
              [] f = "getApexPageNames" ->
                    {Outcome("failed", b) : b \in 1..NumBatches(Len(apexPageIds))}
    IN  {Outcome("ok", 0)} \cup (IF Failures < org.outages THEN fails ELSE {})

Init ==
    /\ org \in Orgs
    /\ profileIds \in Requests
    /\ pc = "request"
    /\ fetch = [f \in Fetches |-> Idle]
    /\ thisProfiles = EmptyMap
    /\ status = 0
    /\ profiles = <<>>
    /\ includeUnchanged = FALSE
    /\ comparison = <<>>
    /\ AuthIdle

\* The handler up to "await normalizer.normalizeProfiles(profileIds)", which
\* runs normalizeProfiles up to its first await.
Receive ==
    /\ pc = "request"
    /\ IF \/ Len(profileIds) < 2
          \/ Len(profileIds) > MaxProfileIds
          \/ \E i \in DOMAIN profileIds : ~WellFormedId(profileIds[i])
       THEN /\ status' = 400
            /\ pc' = "done"
            /\ UNCHANGED fetch
       ELSE /\ pc' = "step1"
            /\ fetch' = [fetch EXCEPT !["getAllProfiles"] = Pending]
            /\ UNCHANGED status
    /\ UNCHANGED <<org, profileIds, thisProfiles, profiles, includeUnchanged, comparison>>
    /\ UNCHANGED authVars

\* The queries of one pending fetch end.
Settle(f) ==
    /\ fetch[f] = Pending
    /\ \E outcome \in Outcomes(f) : fetch' = [fetch EXCEPT ![f] = outcome]
    /\ UNCHANGED <<org, profileIds, pc, thisProfiles, status, profiles, includeUnchanged,
                   comparison>>
    /\ UNCHANGED authVars

\* normalizeProfiles rejected: the handler's catch answers 500.
Rejected ==
    /\ status' = 500
    /\ pc' = "done"
    /\ UNCHANGED <<fetch, thisProfiles>>
    /\ UNCHANGED authVars

\* Step 1 resumes: this.profiles is filled, step 2 is awaited.
AfterGetAllProfiles ==
    /\ pc = "step1"
    /\ Settled("getAllProfiles")
    /\ IF fetch["getAllProfiles"].st = "failed" THEN Rejected
       ELSE /\ thisProfiles' =
                    LET set(m, p) == (p.Id :> p) @@ m
                    IN  FoldLeft(set, thisProfiles, ProfileRows(org))
            /\ pc' = "step2"
            /\ fetch' = [fetch EXCEPT !["getProfilePermissionSetIds"] = Pending]
            /\ UNCHANGED status
    /\ UNCHANGED <<org, profileIds, profiles, includeUnchanged, comparison>>
    /\ UNCHANGED authVars

\* As if a failed container resolution were caught and taken for an empty map.
AfterPermissionSetIdsSwallowed ==
    /\ pc = "step2"
    /\ Settled("getProfilePermissionSetIds")
    /\ pc' = "step3"
    /\ fetch' = [f \in Fetches |-> IF f \in FirstGroup THEN Pending ELSE fetch[f]]
    /\ UNCHANGED <<status, thisProfiles>>
    /\ UNCHANGED <<org, profileIds, profiles, includeUnchanged, comparison>>
    /\ UNCHANGED authVars

\* As if the lookups of step 4 were started together with the fetches of step 3.
AfterPermissionSetIdsAllAtOnce ==
    /\ pc = "step2"
    /\ Settled("getProfilePermissionSetIds")
    /\ IF fetch["getProfilePermissionSetIds"].st = "failed" THEN Rejected
       ELSE /\ pc' = "step3"
            /\ fetch' = [f \in Fetches |->
                            IF f \in FirstGroup \cup SecondGroup THEN Pending ELSE fetch[f]]
            /\ UNCHANGED <<status, thisProfiles>>
    /\ UNCHANGED <<org, profileIds, profiles, includeUnchanged, comparison>>
    /\ UNCHANGED authVars

\* Step 2 resumes: the four fetches of step 3 are started.
AfterPermissionSetIds ==
    /\ pc = "step2"
    /\ Settled("getProfilePermissionSetIds")
    /\ IF fetch["getProfilePermissionSetIds"].st = "failed" THEN Rejected
       ELSE /\ pc' = "step3"
            /\ fetch' = [f \in Fetches |-> IF f \in FirstGroup THEN Pending ELSE fetch[f]]
            /\ UNCHANGED <<status, thisProfiles>>
    /\ UNCHANGED <<org, profileIds, profiles, includeUnchanged, comparison>>
    /\ UNCHANGED authVars

\* Promise.allSettled resumes: the five lookups of step 4 are started.
AfterFirstGroup ==
    /\ pc = "step3"
    /\ \A f \in FirstGroup : Settled(f)
    /\ pc' = "step4"
    /\ fetch' = [f \in Fetches |-> IF f \in SecondGroup THEN Pending ELSE fetch[f]]
    /\ UNCHANGED <<org, profileIds, thisProfiles, status, profiles, includeUnchanged,
                   comparison>>
    /\ UNCHANGED authVars

\* The Map a lookup of step 4 resolved with.
NamesOf(f) ==
    CASE f = "getApexClassNames" -> apexClassNames
      [] f = "getApexPageNames" -> apexPageNames
      [] f = "getRecordTypes" -> recordTypeNames
      [] f = "getCustomTabs" -> customTabNames
      [] f = "getCustomApps" -> customAppNames
\* The lookup of step 4 that settled last.
LastLookup == CHOOSE f \in SecondGroup : fetch[f].place = "last"

\* As if the lookups of step 4 left their Maps in one shared variable that the
\* class names were read from: the Map of the lookup that settled last.
AfterSecondGroupSharedNames ==
    /\ pc = "step4"
    /\ \A f \in SecondGroup : Settled(f)
    /\ profiles' =
            LET data == groupDataByProfile(profileIds, permSetToProfileMap,
                            objectPermissions, fieldPermissions, permissionSets,
                            setupEntityAccess, NamesOf(LastLookup), apexPageNames,
                            recordTypeNames, customTabNames, customAppNames)
                step(out, profileId) ==
                    IF MapHas(thisProfiles, profileId) /\ Has(data, profileId)
                    THEN Append(out, buildNormalizedProfile(thisProfiles[profileId],
                                                            data.val[profileId]))
                    ELSE out
            IN  FoldLeft(step, <<>>, profileIds)
    /\ pc' = "respond"
    /\ UNCHANGED <<org, profileIds, fetch, thisProfiles, status, includeUnchanged,
                   comparison>>
    /\ UNCHANGED authVars

\* Promise.all resumes: steps 5 and 6, and normalizeProfiles returns.
AfterSecondGroup ==
    /\ pc = "step4"
    /\ \A f \in SecondGroup : Settled(f)
    /\ profiles' = normalizedProfiles
    /\ pc' = "respond"
    /\ UNCHANGED <<org, profileIds, fetch, thisProfiles, status, includeUnchanged,
                   comparison>>
    /\ UNCHANGED authVars

\* As if the handler compared whatever normalizeProfiles returned.
RespondWithoutCount ==
    /\ pc = "respond"
    /\ comparison' = <<compare(profiles, includeUnchanged)>>
    /\ status' = 200
    /\ pc' = "done"
    /\ UNCHANGED <<org, profileIds, fetch, thisProfiles, profiles, includeUnchanged>>
    /\ UNCHANGED authVars

\* The handler resumes with normalizedProfiles.
Respond ==
    /\ pc = "respond"
    /\ IF Len(profiles) < 2
       THEN /\ status' = 400
            /\ UNCHANGED comparison
       ELSE /\ comparison' = <<compare(profiles, includeUnchanged)>>
            /\ status' = 200
    /\ pc' = "done"
    /\ UNCHANGED <<org, profileIds, fetch, thisProfiles, profiles, includeUnchanged>>
    /\ UNCHANGED authVars

Next ==
    \/ Receive
    \/ \E f \in Fetches : Settle(f)
    \/ AfterGetAllProfiles
    \/ AfterPermissionSetIds
    \/ AfterFirstGroup
    \/ AfterSecondGroup
    \/ Respond

Spec == Init /\ [][Next]_vars

(***************************************************************************)
(* SpecFaults: the same request against an org that may fail the queries   *)
(* of any number of fetches.                                               *)
(***************************************************************************)
FaultyOrgs ==
    {[known |-> OrgProfileIds, owned |-> owned, bulk |-> FALSE,
      outages |-> Cardinality(Fetches)] : owned \in {OrgProfileIds, {1, 2}}}

FaultyRequests == {<<1, 2>>, <<3, 2>>, <<2, 3, 1>>, <<1, 2, 1>>}

InitFaults ==
    /\ org \in FaultyOrgs
    /\ profileIds \in FaultyRequests
    /\ pc = "request"
    /\ fetch = [f \in Fetches |-> Idle]
    /\ thisProfiles = EmptyMap
    /\ status = 0
    /\ profiles = <<>>
    /\ includeUnchanged = FALSE
    /\ comparison = <<>>
    /\ AuthIdle

SpecFaults == InitFaults /\ [][Next]_vars

(***************************************************************************)
(* SpecDiff: DiffEngine.compare called on every bounded list of documents. *)
(***************************************************************************)
InitDiff ==
    /\ \E n \in 2..MaxProfiles :
       \E shapeOf \in [1..n -> DocShapes] :
       \E again \in 0..n :
            /\ again > 0 => n < MaxProfiles
            /\ profiles = CompareInput(n, shapeOf, again)
    /\ includeUnchanged \in BOOLEAN
    /\ comparison = <<>>
    /\ org = [known |-> {}, owned |-> {}, bulk |-> FALSE, outages |-> 0]
    /\ profileIds = <<>>
    /\ pc = "compare"
    /\ fetch = [f \in Fetches |-> Idle]
    /\ thisProfiles = EmptyMap
    /\ status = 0
    /\ AuthIdle

Compare ==
    /\ pc = "compare"
    /\ comparison = <<>>
    /\ comparison' = <<compare(profiles, includeUnchanged)>>
    /\ UNCHANGED <<profiles, includeUnchanged>>
    /\ UNCHANGED requestVars
    /\ UNCHANGED authVars

NextDiff == Compare

SpecDiff == InitDiff /\ [][NextDiff]_vars

(***************************************************************************)
(* Repeated calls of compare on one engine, with one list and one flag:    *)
(* comparison keeps the results in call order.                             *)
(***************************************************************************)
MaxCalls == 2

\* As if differences and summary were fields of the engine, kept between calls.
CompareCallKeepingAccumulators ==
    /\ pc = "compare"
    /\ Len(comparison) < MaxCalls
    /\ LET result == compare(profiles, includeUnchanged)
           kept   == IF comparison = <<>>
                     THEN [differences |-> <<>>, summary |-> EmptySummary]
                     ELSE comparison[Len(comparison)]
           differences == kept.differences \o result.differences
       IN  comparison' = Append(comparison,
               [result EXCEPT
                    !.differences = differences,
                    !.totalDifferences = CountChanged(differences),
                    !.summary = [key \in DOMAIN result.summary |->
                                    kept.summary[key] + result.summary[key]]])
    /\ UNCHANGED <<profiles, includeUnchanged>>
    /\ UNCHANGED requestVars
    /\ UNCHANGED authVars

\* One call of compare: differences and summary are locals of the call, and
\* the list it is handed is only read.
CompareCall ==
    /\ pc = "compare"
    /\ Len(comparison) < MaxCalls
    /\ comparison' = Append(comparison, compare(profiles, includeUnchanged))
    /\ UNCHANGED <<profiles, includeUnchanged>>
    /\ UNCHANGED requestVars
    /\ UNCHANGED authVars

NextRepeat == CompareCall

SpecRepeat == InitDiff /\ [][NextRepeat]_vars

(***************************************************************************)
(* One ProfileNormalizer instance called more than once: this.profiles is  *)
(* a field of the instance, every other datum of normalizeProfiles is a    *)
(* local of the call.  Between two calls the org may gain or lose profiles.*)
(***************************************************************************)
ReuseOrgs ==
    {[known |-> known, owned |-> known, bulk |-> FALSE, outages |-> 0] :
        known \in {OrgProfileIds, {1, 2}}}
ReuseRequests == {<<1, 2>>, <<1, 2, 3>>, <<3, 1>>}

InitReuse ==
    /\ org \in ReuseOrgs
    /\ profileIds \in ReuseRequests
    /\ pc = "request"
    /\ fetch = [f \in Fetches |-> Idle]
    /\ thisProfiles = EmptyMap
    /\ status = 0
    /\ profiles = <<>>
    /\ includeUnchanged = FALSE
    /\ comparison = <<>>
    /\ AuthIdle

\* normalizeProfiles is called again on the instance whose call returned, with
\* the same profileIds: the call runs up to its first await.
NormalizeAgain ==
    /\ pc = "respond"
    /\ org' \in ReuseOrgs
    /\ pc' = "step1"
    /\ fetch' = [f \in Fetches |-> IF f = "getAllProfiles" THEN Pending ELSE Idle]
    /\ profiles' = <<>>
    /\ UNCHANGED <<profileIds, thisProfiles, status, includeUnchanged, comparison>>
    /\ UNCHANGED authVars

NextReuse ==
    \/ Receive
    \/ \E f \in Fetches : Settle(f)
    \/ AfterGetAllProfiles
    \/ AfterPermissionSetIds
    \/ AfterFirstGroup
    \/ AfterSecondGroup
    \/ NormalizeAgain

SpecReuse == InitReuse /\ [][NextReuse]_vars

(***************************************************************************)
(* SpecVary: compare called on a list of documents with distinct profile   *)
(* ids, and then once more, either on the same documents in another order  *)
(* or with the other includeUnchanged.                                     *)
(***************************************************************************)
MaxVaried == 3

InitVary ==
    /\ \E n \in 2..MaxVaried :
       \E shapeOf \in [1..n -> DocShapes] :
            profiles = CompareInput(n, shapeOf, 0)
    /\ includeUnchanged \in BOOLEAN
    /\ comparison = <<>>
    /\ org = [known |-> {}, owned |-> {}, bulk |-> FALSE, outages |-> 0]
    /\ profileIds = <<>>
    /\ pc = "compare"
    /\ fetch = [f \in Fetches |-> Idle]
    /\ thisProfiles = EmptyMap
    /\ status = 0
    /\ AuthIdle

\* The rearrangements of a list: position i takes the member at order[i].
Orders(n) == {order \in [1..n -> 1..n] : \A i, j \in 1..n : order[i] = order[j] => i = j}
Reordered(ps, order) == [i \in DOMAIN ps |-> ps[order[i]]]

\* A second call, on the same documents in another order.
CompareReordered ==
    /\ pc = "compare"
    /\ Len(comparison) = 1
    /\ \E order \in Orders(Len(profiles)) : profiles' = Reordered(profiles, order)
    /\ comparison' = Append(comparison, compare(profiles', includeUnchanged))
    /\ pc' = "reordered"
    /\ UNCHANGED <<org, profileIds, fetch, thisProfiles, status, includeUnchanged>>
    /\ UNCHANGED authVars

\* As if includeUnchanged also decided whether a changed key is counted.
CompareOtherFlagCountingAll ==
    /\ pc = "compare"
    /\ Len(comparison) = 1
    /\ includeUnchanged' = ~includeUnchanged
    /\ LET result == compare(profiles, includeUnchanged')
       IN  comparison' = Append(comparison,
                [result EXCEPT !.totalDifferences =
                    IF includeUnchanged' THEN Len(result.differences) ELSE @])
    /\ pc' = "flagged"
    /\ UNCHANGED <<org, profileIds, fetch, thisProfiles, status, profiles>>
    /\ UNCHANGED authVars

\* A second call, on the same documents with the other includeUnchanged.
CompareOtherFlag ==
    /\ pc = "compare"
    /\ Len(comparison) = 1
    /\ includeUnchanged' = ~includeUnchanged
    /\ comparison' = Append(comparison, compare(profiles, includeUnchanged'))
    /\ pc' = "flagged"
    /\ UNCHANGED <<org, profileIds, fetch, thisProfiles, status, profiles>>
    /\ UNCHANGED authVars

NextVary == Compare \/ CompareReordered \/ CompareOtherFlag

SpecVary == InitVary /\ [][NextVary]_vars

(***************************************************************************)
(* SpecRace: normalizeProfiles with the completion order of its fetches    *)
(* on record: a settled fetch carries its place among the fetches started  *)
(* with it, "first" to settle, "last" to settle, or in the "middle".       *)
(***************************************************************************)
RaceOrgs ==
    {[known |-> OrgProfileIds, owned |-> OrgProfileIds, bulk |-> FALSE, outages |-> 1]}
RaceRequests == {<<3, 2, 1>>}

InitRace ==
    /\ org \in RaceOrgs
    /\ profileIds \in RaceRequests
    /\ pc = "request"
    /\ fetch = [f \in Fetches |-> Idle]
    /\ thisProfiles = EmptyMap
    /\ status = 0
    /\ profiles = <<>>
    /\ includeUnchanged = FALSE
    /\ comparison = <<>>
    /\ AuthIdle

\* The fetches started together with f.
GroupOf(f) ==
    IF f \in FirstGroup THEN FirstGroup ELSE IF f \in SecondGroup THEN SecondGroup ELSE {f}
Place(f) ==
    LET others == GroupOf(f) \ {f}
    IN  IF \A g \in others : ~Settled(g) THEN "first"
        ELSE IF \A g \in others : Settled(g) THEN "last"
        ELSE "middle"

\* The queries of one pending fetch end, whichever fetch was started first.
SettleInTurn(f) ==
    /\ fetch[f] = Pending
    /\ \E outcome \in Outcomes(f) :
            fetch' = [fetch EXCEPT ![f] = [st |-> outcome.st, batch |-> outcome.batch,
                                           place |-> Place(f)]]
    /\ UNCHANGED <<org, profileIds, pc, thisProfiles, status, profiles, includeUnchanged,
                   comparison>>
    /\ UNCHANGED authVars

NextRace ==
    \/ Receive
    \/ \E f \in Fetches : SettleInTurn(f)
    \/ AfterGetAllProfiles
    \/ AfterPermissionSetIds
    \/ AfterFirstGroup
    \/ AfterSecondGroup

SpecRace == InitRace /\ [][NextRace]_vars

(***************************************************************************)
(* SpecHandler: the compare request on the requests its validation tells   *)
(* apart (too short, too long, a malformed id, the longest list allowed)   *)
(* and on orgs that miss a requested profile; one fetch may fail.          *)
(***************************************************************************)
HandlerOrgs ==
    {[known |-> known, owned |-> known, bulk |-> FALSE, outages |-> 1] :
        known \in {OrgProfileIds, {1, 2}}}
HandlerRequests ==
    {<<1>>, <<1, 2>>, <<1, 3>>, <<3, 3>>, <<1, 0>>, <<0, 0, 2>>,
     [i \in 1..MaxProfileIds |-> IF i = 1 THEN 1 ELSE 2],
     [i \in 1..(MaxProfileIds + 1) |-> IF i = 1 THEN 1 ELSE 2]}

InitHandler ==
    /\ org \in HandlerOrgs
    /\ profileIds \in HandlerRequests
    /\ pc = "request"
    /\ fetch = [f \in Fetches |-> Idle]
    /\ thisProfiles = EmptyMap
    /\ status = 0
    /\ profiles = <<>>
    /\ includeUnchanged = FALSE
    /\ comparison = <<>>
    /\ AuthIdle

SpecHandler == InitHandler /\ [][Next]_vars

(***************************************************************************)
(* SpecAuth: authorization urls are issued, time passes, and the callback  *)
(* is requested with any code and any state parameter.                     *)
(***************************************************************************)
InitAuth ==
    /\ AuthIdle
    /\ org = [known |-> {}, owned |-> {}, bulk |-> FALSE, outages |-> 0]
    /\ profileIds = <<>>
    /\ pc = "auth"
    /\ fetch = [f \in Fetches |-> Idle]
    /\ thisProfiles = EmptyMap
    /\ status = 0
    /\ profiles = <<>>
    /\ includeUnchanged = FALSE
    /\ comparison = <<>>

NextAuth ==
    \/ GetAuthorizationUrl
    \/ Tick
    \/ \E code \in Codes : \E state \in StateParams : Callback(code, state)

SpecAuth == InitAuth /\ [][NextAuth]_vars

(***************************************************************************)
(* Vocabulary of the properties: the keys observed in the compared         *)
(* documents and the value each profile holds for a key, read off the      *)
(* documents themselves.                                                   *)
(***************************************************************************)
Compared == comparison # <<>>
Result == comparison[1]

Range(s) == {s[i] : i \in DOMAIN s}

\* The compared profiles, and the document of each.
ComparedIds == {profiles[i].profileId : i \in DOMAIN profiles}
DocOf(id) == profiles[CHOOSE i \in DOMAIN profiles : profiles[i].profileId = id]

Key(kind, a, b, c) == [kind |-> kind, a |-> a, b |-> b, c |-> c]

ListProperties == {"apexClasses", "visualforcePages", "lightningPages", "recordTypes"}

KeysOfDoc(d) ==
    {Key("object", o, t, Undefined) :
        o \in Range(d.objects.keys), t \in Range(ObjectPermissionTypes)}
    \cup UNION {{Key("field", o, f, t) :
                    f \in Range(d.objects.val[o].fields.keys),
                    t \in Range(FieldPermissionTypes)} : o \in Range(d.objects.keys)}
    \cup {Key("system", n, Undefined, Undefined) : n \in Range(d.systemPermissions.keys)}
    \cup UNION {{Key("list", prop, n, Undefined) : n \in Range(d[prop])} :
                    prop \in ListProperties}
    \cup {Key("app", n, flag, Undefined) :
            n \in Range(d.appVisibilities.keys), flag \in {"visible", "default"}}
    \cup {Key("tab", n, Undefined, Undefined) : n \in Range(d.tabVisibilities.keys)}

\* Every key observed in at least one compared profile; the boolean-valued ones.
ObservedKeys == UNION {KeysOfDoc(profiles[i]) : i \in DOMAIN profiles}
ObservedBoolKeys == {k \in ObservedKeys : k.kind # "tab"}

KeyPath(k) ==
    CASE k.kind = "object" -> "objects." \o k.a \o ".permissions." \o k.b
      [] k.kind = "field"  -> "objects." \o k.a \o ".fields." \o k.b \o "." \o k.c
      [] k.kind = "system" -> "systemPermissions." \o k.a
      [] k.kind = "list"   -> k.a \o "." \o k.b
      [] k.kind = "app"    -> "appVisibilities." \o k.a \o "." \o k.b
      [] k.kind = "tab"    -> "tabVisibilities." \o k.a

KeyCategory(k) ==
    CASE k.kind = "object" -> "objectPermission"
      [] k.kind = "field"  -> "fieldPermission"
      [] k.kind = "system" -> "systemPermission"
      [] k.kind = "list"   ->
            (CASE k.a = "apexClasses"      -> "apexClass"
               [] k.a = "visualforcePages" -> "visualforcePage"
               [] k.a = "lightningPages"   -> "lightningPage"
               [] k.a = "recordTypes"      -> "recordType")
      [] k.kind = "app"    -> "appVisibility"
      [] k.kind = "tab"    -> "tabVisibility"

\* The value document d holds for key k, a missing key counting as absent.
KeyValue(d, k) ==
    CASE k.kind = "object" ->
            Has(d.objects, k.a) /\ d.objects.val[k.a].permissions[k.b]
      [] k.kind = "field"  ->
            /\ Has(d.objects, k.a)
            /\ Has(d.objects.val[k.a].fields, k.b)
            /\ d.objects.val[k.a].fields.val[k.b][k.c]
      [] k.kind = "system" ->
            Has(d.systemPermissions, k.a) /\ d.systemPermissions.val[k.a]
      [] k.kind = "list"   -> k.b \in Range(d[k.a])
      [] k.kind = "app"    ->
            Has(d.appVisibilities, k.a) /\ d.appVisibilities.val[k.a][k.b]
      [] k.kind = "tab"    ->
            IF Has(d.tabVisibilities, k.a) THEN d.tabVisibilities.val[k.a] ELSE "Hidden"

\* The profiles holding true, and false, for a boolean key.
TrueIds(k) == {id \in ComparedIds : KeyValue(DocOf(id), k) = TRUE}
FalseIds(k) == {id \in ComparedIds : KeyValue(DocOf(id), k) = FALSE}
AllSame(k) == Cardinality({KeyValue(DocOf(id), k) : id \in ComparedIds}) = 1

ItemsAt(path) ==
    {i \in DOMAIN Result.differences : Result.differences[i].path = path}

\* Exactly one DiffItem stands for key k, and its diffType is dt.
KeyHasType(k, dt) ==
    /\ Cardinality(ItemsAt(KeyPath(k))) = 1
    /\ \A i \in ItemsAt(KeyPath(k)) :
          /\ Result.differences[i].diffType = dt
          /\ Result.differences[i].category = KeyCategory(k)

(***************************************************************************)
(* Properties of DiffEngine.compare, checked under SpecDiff.               *)
(***************************************************************************)

TwoProfileObjectScenario(dt) ==
    \A p1, p2 \in ComparedIds :
        (p1 # p2 /\ ComparedIds = {p1, p2}) =>
            \A k \in {x \in ObservedBoolKeys : x.kind = "object"} :
                (KeyValue(DocOf(p1), k) = FALSE /\ KeyValue(DocOf(p2), k) = TRUE) =>
                    /\ KeyPath(k) = "objects." \o k.a \o ".permissions." \o k.b
                    /\ KeyHasType(k, dt)
                    /\ \A i \in ItemsAt(KeyPath(k)) :
                          /\ DOMAIN Result.differences[i].values = {p1, p2}
                          /\ Result.differences[i].values[p1] = FALSE
                          /\ Result.differences[i].values[p2] = TRUE
                          /\ Result.differences[i].objectName = k.a
                          /\ Result.differences[i].permissionName = k.b

ThreeProfileObjectScenario(dt) ==
    Cardinality(ComparedIds) = 3 =>
        \A k \in {x \in ObservedBoolKeys : x.kind = "object"} :
            (Cardinality(TrueIds(k)) = 2 /\ Cardinality(FalseIds(k)) = 1)
                => KeyHasType(k, dt)

C5_UnchangedAndChanged ==
    Compared =>
        \A k \in ObservedBoolKeys :
            /\ includeUnchanged => (KeyHasType(k, "unchanged") <=> AllSame(k))
            /\ ~includeUnchanged => (ItemsAt(KeyPath(k)) = {} <=> AllSame(k))
            /\ \A i \in ItemsAt(KeyPath(k)) :
                  Result.differences[i].diffType = "unchanged" <=> AllSame(k)
            /\ (Cardinality(TrueIds(k)) >= 2 /\ Cardinality(FalseIds(k)) >= 2)
                  => KeyHasType(k, "changed")

\* C5 witness: four profiles were compared and some key is true in two of them
\* and false in the other two.
C5_Witness ==
    /\ Compared
    /\ Cardinality(ComparedIds) = 4
    /\ \E k \in ObservedBoolKeys :
          Cardinality(TrueIds(k)) = 2 /\ Cardinality(FalseIds(k)) = 2

\* normalizeProfiles has returned to the handler.
Returned == pc = "respond"

\* Three distinct requested ids, all of them profiles of the org, exactly one
\* of them without an owned permission set.
OneWithoutContainer ==
    /\ Len(profileIds) = 3
    /\ Cardinality(Range(profileIds)) = 3
    /\ Range(profileIds) \subseteq org.known
    /\ Cardinality(Range(profileIds) \ org.owned) = 1

\* C6 (as claimed): normalizeProfiles called with three profile ids that all
\* exist, exactly one of which has no owned permission container, returns
\* exactly two documents, none of them for the profile without a container.
C6_MissingContainerDropped ==
    (Returned /\ OneWithoutContainer) =>
        /\ Len(profiles) = 2
        /\ \A i \in DOMAIN profiles : profiles[i].profileId \in org.owned

\* C6 witness: normalizeProfiles returned for such a request and the profile
\* without a container is in the output, as a document without any grant.
C6_Witness ==
    /\ Returned
    /\ OneWithoutContainer
    /\ Len(profiles) = 3
    /\ \E i \in DOMAIN profiles :
          /\ profiles[i].profileId \notin org.owned
          /\ profiles[i].objects = EmptyObject
          /\ profiles[i].apexClasses = <<>>

StrictlyAscending(list) ==
    \A i \in 1..(Len(list) - 1) : StringLess(list[i], list[i + 1])

\* C7 (as claimed): in every document normalizeProfiles returns, apexClasses,
\* visualforcePages, lightningPages and recordTypes are strictly ascending
\* (sorted, no name twice), also when several grants of one permission set
\* resolve to the same name.
C7_ListsStrictlyAscending ==
    Returned =>
        \A i \in DOMAIN profiles :
            /\ StrictlyAscending(profiles[i].apexClasses)
            /\ StrictlyAscending(profiles[i].visualforcePages)
            /\ StrictlyAscending(profiles[i].lightningPages)
            /\ StrictlyAscending(profiles[i].recordTypes)

\* C7 witness: a returned document lists one class name twice, for two grants
\* of its permission set that resolve to that name.
C7_Witness ==
    /\ Returned
    /\ \E i \in DOMAIN profiles :
       \E j \in 1..(Len(profiles[i].apexClasses) - 1) :
          /\ profiles[i].apexClasses[j] = profiles[i].apexClasses[j + 1]
          /\ \E a, b \in DOMAIN setupEntityAccess :
                /\ a # b
                /\ setupEntityAccess[a].ParentId = PermSetId(profiles[i].profileId)
                /\ setupEntityAccess[b].ParentId = PermSetId(profiles[i].profileId)
                /\ setupEntityAccess[a].SetupEntityId # setupEntityAccess[b].SetupEntityId
                /\ MapGet(apexClassNames, setupEntityAccess[a].SetupEntityId)
                      = profiles[i].apexClasses[j]
                /\ MapGet(apexClassNames, setupEntityAccess[b].SetupEntityId)
                      = profiles[i].apexClasses[j]

NineCategories ==
    {"objectPermission", "fieldPermission", "systemPermission", "apexClass",
     "visualforcePage", "lightningPage", "recordType", "tabVisibility",
     "appVisibility"}

\* The summary counter that stands for a category.
CounterOf(category) ==
    CASE category = "objectPermission" -> "objectPermissions"
      [] category = "fieldPermission"  -> "fieldPermissions"
      [] category = "systemPermission" -> "systemPermissions"
      [] category = "apexClass"        -> "apexClasses"
      [] category = "visualforcePage"  -> "visualforcePages"
      [] category = "lightningPage"    -> "lightningPages"
      [] category = "recordType"       -> "recordTypes"
      [] category = "tabVisibility"    -> "tabVisibilities"
      [] category = "appVisibility"    -> "appVisibilities"

RECURSIVE SumOver(_, _)
SumOver(f, S) ==
    IF S = {} THEN 0
    ELSE LET x == CHOOSE y \in S : TRUE IN f[x] + SumOver(f, S \ {x})

\* C8: in every ComparisonResult (either value of includeUnchanged) every
\* DiffItem.category is one of the nine categories, each summary counter
\* equals the number of DiffItems of its category whose diffType is not
\* 'unchanged', and the nine counters add up to totalDifferences.
C8_CategoryPartition ==
    Compared =>
        /\ \A i \in DOMAIN Result.differences :
              Result.differences[i].category \in NineCategories
        /\ DOMAIN Result.summary = {CounterOf(c) : c \in NineCategories}
        /\ \A c \in NineCategories :
              Result.summary[CounterOf(c)] =
                  Cardinality({i \in DOMAIN Result.differences :
                                  /\ Result.differences[i].category = c
                                  /\ Result.differences[i].diffType # "unchanged"})
        /\ SumOver(Result.summary, DOMAIN Result.summary) = Result.totalDifferences

\* C8 witness: a comparison with includeUnchanged set returned both unchanged
\* and differing items, two sub-permissions of one object among the latter.
C8_Witness ==
    /\ Compared
    /\ includeUnchanged
    /\ \E i \in DOMAIN Result.differences : Result.differences[i].diffType = "unchanged"
    /\ \E i, j \in DOMAIN Result.differences :
          /\ i # j
          /\ Result.differences[i].category = "objectPermission"
          /\ Result.differences[j].category = "objectPermission"
          /\ Result.differences[i].objectName = Result.differences[j].objectName
          /\ Result.differences[i].diffType # "unchanged"
          /\ Result.differences[j].diffType # "unchanged"

\* C9: with includeUnchanged = false no DiffItem is 'unchanged' and a key with
\* the same value in every profile adds nothing to summary (each counter
\* counts the keys of its category whose values differ); with
\* includeUnchanged = true every observed key is emitted, and a key with the
\* same value in every profile as exactly one DiffItem tagged 'unchanged'.
C9_IncludeUnchanged ==
    Compared =>
        /\ ~includeUnchanged =>
              /\ \A i \in DOMAIN Result.differences :
                    Result.differences[i].diffType # "unchanged"
              /\ \A k \in ObservedKeys : AllSame(k) => ItemsAt(KeyPath(k)) = {}
              /\ \A c \in NineCategories :
                    Result.summary[CounterOf(c)] =
                        Cardinality({k \in ObservedKeys :
                                        KeyCategory(k) = c /\ ~AllSame(k)})
        /\ includeUnchanged =>
              /\ \A k \in ObservedKeys : Cardinality(ItemsAt(KeyPath(k))) = 1
              /\ \A k \in ObservedKeys : AllSame(k) => KeyHasType(k, "unchanged")

\* C9 witness: a comparison with includeUnchanged set was run on profiles that
\* agree on some key and differ on another.
C9_Witness ==
    /\ Compared
    /\ includeUnchanged
    /\ \E k \in ObservedKeys : AllSame(k)
    /\ \E k \in ObservedKeys : ~AllSame(k)

\* C10 (as claimed): when the class-name or the page-name lookup fails, in
\* whichever of its id batches, its name map is empty, and no class (page) is
\* listed in any document normalizeProfiles returns.
C10_FailedLookupGivesEmptyMap ==
    /\ fetch["getApexClassNames"].st = "failed" =>
          /\ DOMAIN apexClassNames = {}
          /\ Returned => \A i \in DOMAIN profiles : profiles[i].apexClasses = <<>>
    /\ fetch["getApexPageNames"].st = "failed" =>
          /\ DOMAIN apexPageNames = {}
          /\ Returned => \A i \in DOMAIN profiles : profiles[i].visualforcePages = <<>>

\* C10 witness: the class-name lookup failed in its second batch and
\* normalizeProfiles returned a document that lists a class of the first.
C10_Witness ==
    /\ Returned
    /\ fetch["getApexClassNames"].st = "failed"
    /\ fetch["getApexClassNames"].batch = 2
    /\ DOMAIN apexClassNames # {}
    /\ \E i \in DOMAIN profiles : profiles[i].apexClasses # <<>>

\* The documents of the same request had no fetch of the first group failed:
\* the inputs of step 5 are the full results of the four fetches (the flags
\* with the field list the describe call of this request gave).
FaultFreeData ==
    LET flags == fetch["getPermissionSetWithSystemPerms"]
    IN  groupDataByProfile(profileIds, permSetToProfileMap,
            getObjectPermissions(org, permissionSetIds),
            getFieldPermissions(org, permissionSetIds, Outcome("ok", 0)),
            getPermissionSetWithSystemPerms(org, permissionSetIds,
                IF flags.st = "failed" THEN Outcome("ok", 0) ELSE flags),
            getSetupEntityAccess(org, permissionSetIds, Outcome("ok", 0)),
            apexClassNames, apexPageNames, recordTypeNames, customTabNames,
            customAppNames)
FaultFreeDoc(id) == buildNormalizedProfile(thisProfiles[id], FaultFreeData.val[id])

FailedFetch(f) == fetch[f].st = "failed"

\* The object names of the object-permission rows of the permission set that
\* profile id owns.
ObjectsWithRow(id) ==
    {ObjectPermissionsTable[r].SobjectType :
        r \in {r \in DOMAIN ObjectPermissionsTable :
                  /\ id \in org.owned
                  /\ ObjectPermissionsTable[r].ParentId = PermSetId(id)}}

\* C11: whichever of the four first-group fetches fail, normalizeProfiles
\* returns one document per requested known profile; the part of a document
\* that comes from a failed fetch is empty (objects keep default permissions
\* only, no fields, no flags, no listed entity, tab or app) and the part that
\* comes from a fetch that did not fail is what it is when no fetch fails.
C11_FirstGroupFaultTolerant ==
    Returned =>
        /\ Len(profiles) = Cardinality({i \in DOMAIN profileIds : profileIds[i] \in org.known})
        /\ \A i \in DOMAIN profiles :
            LET doc == profiles[i]
                ref == FaultFreeDoc(doc.profileId)
            IN  /\ IF FailedFetch("getObjectPermissions")
                   THEN \A o \in DOMAIN doc.objects.val :
                            doc.objects.val[o].permissions = DefaultPermissions
                   ELSE \A o \in ObjectsWithRow(doc.profileId) :
                            /\ Has(doc.objects, o)
                            /\ doc.objects.val[o].permissions = ref.objects.val[o].permissions
                /\ IF FailedFetch("getFieldPermissions")
                   THEN \A o \in DOMAIN doc.objects.val :
                            doc.objects.val[o].fields = EmptyObject
                   ELSE \A o \in DOMAIN ref.objects.val :
                            ref.objects.val[o].fields # EmptyObject =>
                                /\ Has(doc.objects, o)
                                /\ doc.objects.val[o].fields = ref.objects.val[o].fields
                /\ IF FailedFetch("getPermissionSetWithSystemPerms")
                   THEN doc.systemPermissions = EmptyObject
                   ELSE doc.systemPermissions = ref.systemPermissions
                /\ IF FailedFetch("getSetupEntityAccess")
                   THEN /\ doc.apexClasses = <<>> /\ doc.visualforcePages = <<>>
                        /\ doc.recordTypes = <<>>
                        /\ doc.tabVisibilities = EmptyObject
                        /\ doc.appVisibilities = EmptyObject
                   ELSE /\ doc.apexClasses = ref.apexClasses
                        /\ doc.visualforcePages = ref.visualforcePages
                        /\ doc.recordTypes = ref.recordTypes
                        /\ doc.tabVisibilities = ref.tabVisibilities
                        /\ doc.appVisibilities = ref.appVisibilities

\* C11 witness: normalizeProfiles returned although the object-permission and
\* the flag fetch failed; a returned document has no flags and default object
\* permissions, and keeps its field grants and its classes.
C11_Witness ==
    /\ Returned
    /\ FailedFetch("getObjectPermissions")
    /\ FailedFetch("getPermissionSetWithSystemPerms")
    /\ ~FailedFetch("getFieldPermissions")
    /\ ~FailedFetch("getSetupEntityAccess")
    /\ Len(profiles) >= 2
    /\ \E i \in DOMAIN profiles :
          /\ profiles[i].systemPermissions = EmptyObject
          /\ profiles[i].apexClasses # <<>>
          /\ \E o \in DOMAIN profiles[i].objects.val :
                /\ profiles[i].objects.val[o].fields # EmptyObject
                /\ profiles[i].objects.val[o].permissions = DefaultPermissions

GrantedIds(id, type) ==
    LET mine == SelectSeq(setupEntityAccess,
                    LAMBDA e : /\ id \in org.owned
                               /\ e.ParentId = PermSetId(id)
                               /\ e.SetupEntityType = type)
    IN  [i \in DOMAIN mine |-> mine[i].SetupEntityId]
ResolvedIds(id, type, names) ==
    SelectSeq(GrantedIds(id, type), LAMBDA e : MapHas(names, e))
ResolvedNames(id, type, names) ==
    {names[e] : e \in Range(ResolvedIds(id, type, names))}

\* Some fetched grant has no entry in the name map of its type.
UnresolvedGrant ==
    \E i \in DOMAIN profileIds :
        \/ Len(ResolvedIds(profileIds[i], "ApexClass", apexClassNames))
              < Len(GrantedIds(profileIds[i], "ApexClass"))
        \/ Len(ResolvedIds(profileIds[i], "ApexPage", apexPageNames))
              < Len(GrantedIds(profileIds[i], "ApexPage"))

\* C13: every entry of a list or visibility map of a returned document is the
\* catalog name of a resolved grant of that profile, one entry per resolved
\* grant in a list: a grant whose id has no entry in the name map of its type
\* adds nothing (no placeholder, no id); it raises no error; and every
\* DiffItem of an entity category names a resolved grant.
C13_UnresolvedGrantDropped ==
    /\ (Returned \/ (pc = "done" /\ status = 200)) =>
         \A i \in DOMAIN profiles :
            LET doc == profiles[i]
                id == doc.profileId
            IN  /\ Len(doc.apexClasses) = Len(ResolvedIds(id, "ApexClass", apexClassNames))
                /\ Range(doc.apexClasses) = ResolvedNames(id, "ApexClass", apexClassNames)
                /\ Len(doc.visualforcePages) = Len(ResolvedIds(id, "ApexPage", apexPageNames))
                /\ Range(doc.visualforcePages) = ResolvedNames(id, "ApexPage", apexPageNames)
                /\ Len(doc.recordTypes) = Len(ResolvedIds(id, "RecordType", recordTypeNames))
                /\ Range(doc.recordTypes) = ResolvedNames(id, "RecordType", recordTypeNames)
                /\ doc.lightningPages = <<>>
                /\ Range(doc.tabVisibilities.keys) = ResolvedNames(id, "CustomTab", customTabNames)
                /\ Range(doc.appVisibilities.keys) = ResolvedNames(id, "TabSet", customAppNames)
    /\ (pc = "done" /\ status = 200) =>
         \A d \in DOMAIN Result.differences :
            LET item == Result.differences[d]
                named(type, names) ==
                    \E i \in DOMAIN profiles :
                        item.permissionName \in ResolvedNames(profiles[i].profileId, type, names)
            IN  /\ item.category = "apexClass" => named("ApexClass", apexClassNames)
                /\ item.category = "visualforcePage" => named("ApexPage", apexPageNames)
                /\ item.category = "recordType" => named("RecordType", recordTypeNames)
                /\ item.category = "tabVisibility" => named("CustomTab", customTabNames)
                /\ item.category # "lightningPage"
                /\ item.category = "appVisibility" =>
                      \E i \in DOMAIN profiles :
                      \E n \in ResolvedNames(profiles[i].profileId, "TabSet", customAppNames) :
                          item.path \in {"appVisibilities." \o n \o ".visible",
                                         "appVisibilities." \o n \o ".default"}
    /\ (pc = "done" /\ ~FailedFetch("getAllProfiles")
                    /\ ~FailedFetch("getProfilePermissionSetIds")) => status = 200

\* C13 witness: a comparison was answered for a request in which a class
\* grant has no entry in the class-name map although the lookup succeeded.
C13_Witness ==
    /\ pc = "done"
    /\ status = 200
    /\ fetch["getApexClassNames"].st = "ok"
    /\ fetch["getSetupEntityAccess"].st = "ok"
    /\ \E i \in DOMAIN profiles :
          /\ profiles[i].apexClasses # <<>>
          /\ Len(ResolvedIds(profiles[i].profileId, "ApexClass", apexClassNames))
                < Len(GrantedIds(profiles[i].profileId, "ApexClass"))
    /\ \E d \in DOMAIN Result.differences : Result.differences[d].category = "apexClass"

\* The rows of a fetched list whose ParentId is the permission set that the
\* requested profile id owns, in the order fetched.
OwnRows(rows, id) ==
    SelectSeq(rows, LAMBDA r : id \in org.owned /\ r.ParentId = PermSetId(id))

\* Step 5 run on every row the org holds, the rows of permission sets of
\* profiles that were not requested included.
profileDataOfAllRows ==
    groupDataByProfile(profileIds, permSetToProfileMap, ObjectPermissionsTable,
                       FieldPermissionsTable, permissionSets,
                       SetupEntityAccessTable(org), apexClassNames, apexPageNames,
                       recordTypeNames, customTabNames, customAppNames)

NoFirstGroupFailure == \A f \in FirstGroup : ~FailedFetch(f)

\* C14: the bundle of each requested profile holds exactly the fetched object
\* and field grants of the permission set that profile owns, and one name per
\* resolved entity grant of that set, so no record is in the bundle of another
\* profile; rows of permission sets that map to no requested profile change no
\* bundle; and every object, permission and field of a returned document
\* comes from a row of that profile's own permission set.
C14_GrantsRoutedToOwner ==
    Returned =>
        /\ Range(profileData.keys) = Range(profileIds)
        /\ \A id \in Range(profileIds) :
            LET bundle == profileData.val[id]
            IN  /\ bundle.objectPermissions = OwnRows(objectPermissions, id)
                /\ bundle.fieldPermissions = OwnRows(fieldPermissions, id)
                /\ Len(bundle.apexClasses) = Len(ResolvedIds(id, "ApexClass", apexClassNames))
                /\ Len(bundle.visualforcePages) = Len(ResolvedIds(id, "ApexPage", apexPageNames))
                /\ Len(bundle.recordTypes) = Len(ResolvedIds(id, "RecordType", recordTypeNames))
                /\ Len(bundle.tabs) = Len(ResolvedIds(id, "CustomTab", customTabNames))
                /\ Len(bundle.apps) = Len(ResolvedIds(id, "TabSet", customAppNames))
        /\ NoFirstGroupFailure => profileDataOfAllRows = profileData
        /\ \A i \in DOMAIN profiles :
            LET doc == profiles[i]
                ownObjects == OwnRows(ObjectPermissionsTable, doc.profileId)
                ownFields == OwnRows(FieldPermissionsTable, doc.profileId)
            IN  \A o \in DOMAIN doc.objects.val :
                    /\ \/ \E r \in DOMAIN ownObjects : ownObjects[r].SobjectType = o
                       \/ \E r \in DOMAIN ownFields : ownFields[r].SobjectType = o
                    /\ \/ doc.objects.val[o].permissions = DefaultPermissions
                       \/ \E r \in DOMAIN ownObjects :
                             /\ ownObjects[r].SobjectType = o
                             /\ doc.objects.val[o].permissions.read = ownObjects[r].PermissionsRead
                             /\ doc.objects.val[o].permissions.create = ownObjects[r].PermissionsCreate
                             /\ doc.objects.val[o].permissions.edit = ownObjects[r].PermissionsEdit
                             /\ doc.objects.val[o].permissions.delete = ownObjects[r].PermissionsDelete
                             /\ doc.objects.val[o].permissions.viewAll
                                   = ownObjects[r].PermissionsViewAllRecords
                             /\ doc.objects.val[o].permissions.modifyAll
                                   = ownObjects[r].PermissionsModifyAllRecords
                    /\ \A f \in DOMAIN doc.objects.val[o].fields.val :
                          \E r \in DOMAIN ownFields :
                             /\ ownFields[r].SobjectType = o
                             /\ ownFields[r].Field[Len(ownFields[r].Field)] = f
                             /\ doc.objects.val[o].fields.val[f].read = ownFields[r].PermissionsRead
                             /\ doc.objects.val[o].fields.val[f].edit = ownFields[r].PermissionsEdit

\* C14 witness: two profiles with grants of their own were normalized with no
\* fetch failing, while the org holds grants of a third profile's permission
\* set that was not requested.
C14_Witness ==
    /\ Returned
    /\ NoFirstGroupFailure
    /\ Cardinality(Range(profileIds)) = 2
    /\ \A id \in Range(profileIds) :
          /\ OwnRows(objectPermissions, id) # <<>>
          /\ OwnRows(setupEntityAccess, id) # <<>>
    /\ \E r \in DOMAIN ObjectPermissionsTable :
          \A id \in Range(profileIds) : ObjectPermissionsTable[r].ParentId # PermSetId(id)

\* Profile id has a fetched field grant on object o and no fetched object
\* grant on it.
FieldGrantOnly(id, o) ==
    /\ \E r \in DOMAIN OwnRows(fieldPermissions, id) :
          OwnRows(fieldPermissions, id)[r].SobjectType = o
    /\ \A r \in DOMAIN OwnRows(objectPermissions, id) :
          OwnRows(objectPermissions, id)[r].SobjectType # o

\* C15: in every returned document, every object named by a field-permission
\* row of that profile has an entry in objects that holds the row's field;
\* when the profile has no object-permission row for the object, all six
\* sub-permissions of the entry are false.
C15_FieldOnlyObjectDefaults ==
    Returned =>
        \A i \in DOMAIN profiles :
            LET doc == profiles[i]
                rows == OwnRows(fieldPermissions, doc.profileId)
            IN  \A r \in DOMAIN rows :
                    LET o == rows[r].SobjectType
                    IN  /\ Has(doc.objects, o)
                        /\ InSeq(doc.objects.keys, o)
                        /\ Has(doc.objects.val[o].fields, rows[r].Field[Len(rows[r].Field)])
                        /\ FieldGrantOnly(doc.profileId, o) =>
                              /\ doc.objects.val[o].permissions.read = FALSE
                              /\ doc.objects.val[o].permissions.create = FALSE
                              /\ doc.objects.val[o].permissions.edit = FALSE
                              /\ doc.objects.val[o].permissions.delete = FALSE
                              /\ doc.objects.val[o].permissions.viewAll = FALSE
                              /\ doc.objects.val[o].permissions.modifyAll = FALSE
                              /\ DOMAIN doc.objects.val[o].permissions
                                    = {"read", "create", "edit", "delete", "viewAll", "modifyAll"}

\* C15 witness: with no fetch failing, a returned document has an object with
\* a field grant and no object grant beside an object that has an object grant.
C15_Witness ==
    /\ Returned
    /\ NoFirstGroupFailure
    /\ \E i \in DOMAIN profiles :
          /\ \E o \in DOMAIN profiles[i].objects.val :
                /\ FieldGrantOnly(profiles[i].profileId, o)
                /\ profiles[i].objects.val[o].fields # EmptyObject
          /\ \E o \in DOMAIN profiles[i].objects.val :
                ~FieldGrantOnly(profiles[i].profileId, o)

\* The compared profiles carry pairwise distinct profile ids.
DistinctIds == Cardinality(ComparedIds) = Len(profiles)

\* DiffItem item stands for key k and copies each profile's value of k, a
\* profile without the key giving the absent value.
ItemOfKey(item, k) ==
    /\ item.path = KeyPath(k)
    /\ item.category = KeyCategory(k)
    /\ \A id \in ComparedIds : item.values[id] = KeyValue(DocOf(id), k)

\* C16: over profiles with pairwise distinct ids, the values of every DiffItem
\* have exactly one entry per compared profile; the item stands for a key
\* observed in at least one profile, and a profile without the key gets the
\* absent value (false for a boolean key, 'Hidden' for a tab).
C16_ValuesCoverEveryProfile ==
    (Compared /\ DistinctIds) =>
        \A i \in DOMAIN Result.differences :
            LET item == Result.differences[i]
            IN  /\ DOMAIN item.values = ComparedIds
                /\ Cardinality(DOMAIN item.values) = Len(profiles)
                /\ \E k \in ObservedKeys : ItemOfKey(item, k)

\* A boolean item and a tab item, each with a profile that lacks the key.
C16_Witness ==
    /\ Compared
    /\ DistinctIds
    /\ \E i, j \in DOMAIN Result.differences :
       \E k, t \in ObservedKeys :
       \E a, b \in ComparedIds :
            /\ k.kind = "list" /\ t.kind = "tab"
            /\ ItemOfKey(Result.differences[i], k)
            /\ ItemOfKey(Result.differences[j], t)
            /\ k \notin KeysOfDoc(DocOf(a))
            /\ Result.differences[i].values[a] = FALSE
            /\ t \notin KeysOfDoc(DocOf(b))
            /\ Result.differences[j].values[b] = "Hidden"

\* The keys of the two flags of the apps observed in at least one profile.
ObservedAppKeys == {k \in ObservedKeys : k.kind = "app"}

\* C17 (as claimed): every app name occurring in the appVisibilities of at
\* least one compared profile has one DiffItem for its 'visible' flag and one
\* for its 'default' flag in the result.
C17_TwoItemsPerApp_Claimed ==
    Compared =>
        \A k \in ObservedAppKeys : Cardinality(ItemsAt(KeyPath(k))) = 1

\* C17: every app name occurring in the appVisibilities of at least one
\* compared profile has, for each of its two flags, exactly one DiffItem when
\* includeUnchanged is true or the flag differs between the profiles, and none
\* otherwise; so two DiffItems per app when includeUnchanged is true.
C17_TwoItemsPerApp ==
    Compared =>
        \A k \in ObservedAppKeys :
            /\ Cardinality(ItemsAt(KeyPath(k))) =
                    (IF includeUnchanged \/ ~AllSame(k) THEN 1 ELSE 0)
            /\ \A i \in ItemsAt(KeyPath(k)) :
                    /\ Result.differences[i].category = "appVisibility"
                    /\ \A id \in ComparedIds :
                          Result.differences[i].values[id] = KeyValue(DocOf(id), k)

\* An app with both DiffItems, the 'default' one emitted although no profile
\* differs in it, and with a profile that does not hold the app.
C17_Witness ==
    /\ Compared
    /\ includeUnchanged
    /\ \E v, d \in ObservedAppKeys :
            /\ v.a = d.a /\ v.b = "visible" /\ d.b = "default"
            /\ Cardinality(ItemsAt(KeyPath(v))) = 1
            /\ Cardinality(ItemsAt(KeyPath(d))) = 1
            /\ ~AllSame(v)
            /\ AllSame(d)
            /\ \E id \in ComparedIds : v \notin KeysOfDoc(DocOf(id))

\* Two profiles are compared, P1 = profiles[1] and P2 = profiles[2].
TwoProfiles == Len(profiles) = 2 /\ DistinctIds
ListKeys == {k \in ObservedKeys : k.kind = "list"}

TabKeys == {k \in ObservedKeys : k.kind = "tab"}

\* C19: a tab-visibility key is 'unchanged' when its string value ('Hidden'
\* for a profile without the tab) is the same in all compared profiles and
\* 'changed' otherwise; no tabVisibility DiffItem is 'added' or 'removed',
\* whatever the number of profiles.
C19_TabsUnchangedOrChanged ==
    Compared =>
        /\ \A i \in DOMAIN Result.differences :
              Result.differences[i].category = "tabVisibility" =>
                    Result.differences[i].diffType \in {"unchanged", "changed"}
        /\ \A k \in TabKeys :
              /\ ~AllSame(k) => KeyHasType(k, "changed")
              /\ (AllSame(k) /\ includeUnchanged) => KeyHasType(k, "unchanged")
              /\ (AllSame(k) /\ ~includeUnchanged) => ItemsAt(KeyPath(k)) = {}

\* Three or more profiles of which exactly one shows the tab and the others
\* lack it (a boolean key would be 'added'), or the mirror case where exactly
\* one lacks it (a boolean key would be 'removed'): the item is 'changed'.
C19_Witness ==
    /\ Compared
    /\ Cardinality(ComparedIds) >= 3
    /\ \E k \in TabKeys :
          /\ KeyHasType(k, "changed")
          /\ LET hidden == {id \in ComparedIds : KeyValue(DocOf(id), k) = "Hidden"}
             IN  Cardinality(hidden) \in {1, Cardinality(ComparedIds) - 1}

FreshProfiles == [id \in org.known |-> [Id |-> id, Name |-> ProfileName(id)]]
FreshResult ==
    LET kept == SelectSeq(profileIds, LAMBDA id : id \in DOMAIN FreshProfiles
                                                   /\ Has(profileData, id))
    IN  [i \in DOMAIN kept |->
            buildNormalizedProfile(FreshProfiles[kept[i]], profileData.val[kept[i]])]

\* C21: normalizeProfiles keeps no state across calls: whenever a call on an
\* instance returns, first call or not, and whether or not the profiles known
\* to the provider changed since the earlier call, its result is the result
\* of a call on a fresh instance.
C21_NoStateAcrossCalls ==
    Returned => profiles = FreshResult

\* C21 witness: a second call on the same instance returned after a profile
\* of the request was deleted from the org, and its result has a document for
\* the deleted profile, which a fresh instance does not return.
C21_Witness ==
    /\ Returned
    /\ DOMAIN thisProfiles # org.known
    /\ \E i \in DOMAIN profiles : profiles[i].profileId \notin org.known
    /\ \A i \in DOMAIN FreshResult : FreshResult[i].profileId \in org.known
    /\ Len(profiles) > Len(FreshResult)

\* The request body carries 2 to 10 ids, each well formed.
ValidList ==
    /\ Len(profileIds) >= 2
    /\ Len(profileIds) <= MaxProfileIds
    /\ \A i \in DOMAIN profileIds : WellFormedId(profileIds[i])
Answered == pc = "done"
NormalizationRejected ==
    FailedFetch("getAllProfiles") \/ FailedFetch("getProfilePermissionSetIds")

Issued(f) == fetch[f] # Idle
\* The ids of the entity-access grants of the given type that the first group
\* fetched: rows of the requested profiles' permission sets.
GrantIdsOfType(type) ==
    IF fetch["getSetupEntityAccess"].st # "ok" THEN {}
    ELSE {SetupEntityAccessTable(org)[i].SetupEntityId :
            i \in {j \in DOMAIN SetupEntityAccessTable(org) :
                    /\ SetupEntityAccessTable(org)[j].SetupEntityType = type
                    /\ SetupEntityAccessTable(org)[j].ParentId \in permissionSetIds}}

\* C24: the container resolution is issued only after the profile-identity
\* fetch completed, a first-group fetch only after both completed, a
\* second-group lookup only after all four first-group fetches settled, and
\* the class and page lookups are issued for ids of the entity-access grants
\* of the first group only.
C24_FetchOrder ==
    /\ Issued("getProfilePermissionSetIds") => fetch["getAllProfiles"].st = "ok"
    /\ \A f \in FirstGroup :
            Issued(f) => /\ fetch["getAllProfiles"].st = "ok"
                         /\ fetch["getProfilePermissionSetIds"].st = "ok"
    /\ \A f \in SecondGroup : Issued(f) => \A g \in FirstGroup : Settled(g)
    /\ Issued("getApexClassNames") => Range(apexClassIds) \subseteq GrantIdsOfType("ApexClass")
    /\ Issued("getApexPageNames") => Range(apexPageIds) \subseteq GrantIdsOfType("ApexPage")

\* C24 witness: the five lookups are pending, the first group has settled
\* with one fetch failed, and the class and page lookups were given ids.
C24_Witness ==
    /\ pc = "step4"
    /\ \A f \in SecondGroup : fetch[f] = Pending
    /\ FailedFetch("getObjectPermissions")
    /\ apexClassIds # <<>>
    /\ apexPageIds # <<>>
    /\ Range(apexClassIds) = GrantIdsOfType("ApexClass")

\* The bundle a returned document was built from.
BundleOf(d) == profileData.val[d.profileId]
LastRow(rows, sameAs(_)) ==
    rows[CHOOSE i \in DOMAIN rows :
            sameAs(rows[i]) /\ \A j \in DOMAIN rows : sameAs(rows[j]) => j <= i]
FieldNameOf(fieldPerm) ==
    IF Len(fieldPerm.Field) >= 2 THEN fieldPerm.Field[2] ELSE fieldPerm.Field[1]

\* C25: in every returned document an object named by object-permission rows
\* of the bundle has exactly one objects entry, whose six permissions are
\* those of the last such row, and every field-permission row of the bundle
\* has its field under its object, with the read and edit of the last row
\* for that field.
C25_LastObjectRowWins ==
    Returned =>
        \A n \in DOMAIN profiles :
            LET d == profiles[n]
                objRows == BundleOf(d).objectPermissions
                fieldRows == BundleOf(d).fieldPermissions
            IN  /\ \A i, j \in DOMAIN d.objects.keys :
                        d.objects.keys[i] = d.objects.keys[j] => i = j
                /\ Range(d.objects.keys) = DOMAIN d.objects.val
                /\ \A i \in DOMAIN objRows :
                        LET name == objRows[i].SobjectType
                            last == LastRow(objRows, LAMBDA r : r.SobjectType = name)
                        IN  /\ Has(d.objects, name)
                            /\ d.objects.val[name].permissions =
                                    [read |-> last.PermissionsRead,
                                     create |-> last.PermissionsCreate,
                                     edit |-> last.PermissionsEdit,
                                     delete |-> last.PermissionsDelete,
                                     viewAll |-> last.PermissionsViewAllRecords,
                                     modifyAll |-> last.PermissionsModifyAllRecords]
                /\ \A i \in DOMAIN fieldRows :
                        LET row == fieldRows[i]
                            last == LastRow(fieldRows,
                                        LAMBDA r : /\ r.SobjectType = row.SobjectType
                                                   /\ FieldNameOf(r) = FieldNameOf(row))
                        IN  /\ Has(d.objects, row.SobjectType)
                            /\ Has(d.objects.val[row.SobjectType].fields, FieldNameOf(row))
                            /\ d.objects.val[row.SobjectType].fields.val[FieldNameOf(row)] =
                                    [read |-> last.PermissionsRead,
                                     edit |-> last.PermissionsEdit]

\* C25 witness: a returned document whose bundle has two object-permission
\* rows for one object that differ in their permissions, and a
\* field-permission row for that object.
C25_Witness ==
    /\ Returned
    /\ \E n \in DOMAIN profiles :
            LET objRows == BundleOf(profiles[n]).objectPermissions
                fieldRows == BundleOf(profiles[n]).fieldPermissions
            IN  \E i, j \in DOMAIN objRows :
                    /\ i < j
                    /\ objRows[i].SobjectType = objRows[j].SobjectType
                    /\ objRows[i].PermissionsEdit # objRows[j].PermissionsEdit
                    /\ \E k \in DOMAIN fieldRows :
                            fieldRows[k].SobjectType = objRows[i].SobjectType

SameItems(xs, ys) ==
    \A i \in DOMAIN xs : \E j \in DOMAIN ys : ys[j].path = xs[i].path /\ ys[j] = xs[i]

\* C28: a second call on the same documents (distinct profile ids) in another
\* order returns the same summary and totalDifferences, the same profiles and
\* the same DiffItems (path, category, diffType and values per profile id
\* included), whatever their order.
C28_OrderOfInputIrrelevant ==
    (pc = "reordered" /\ DistinctIds) =>
        /\ comparison[2].summary = comparison[1].summary
        /\ comparison[2].totalDifferences = comparison[1].totalDifferences
        /\ SameItems(comparison[1].differences, comparison[2].differences)
        /\ SameItems(comparison[2].differences, comparison[1].differences)
        /\ Len(comparison[2].differences) = Len(comparison[1].differences)
        /\ Range(comparison[2].profiles) = Range(comparison[1].profiles)

\* C28 witness: the second call was given the documents in another order and
\* returned changed items in another order than the first call.
C28_Witness ==
    /\ pc = "reordered"
    /\ DistinctIds
    /\ comparison[2].profiles # comparison[1].profiles
    /\ comparison[2].differences # comparison[1].differences
    /\ comparison[1].totalDifferences > 0

\* The two results of a state of SpecVary after the call with the other flag:
\* the one returned with includeUnchanged and the one returned without.
WithUnchanged == IF includeUnchanged THEN comparison[2] ELSE comparison[1]
WithoutUnchanged == IF includeUnchanged THEN comparison[1] ELSE comparison[2]

\* C29: the two calls return the same summary and totalDifferences, and the
\* differences returned without includeUnchanged are those returned with it
\* less the 'unchanged' items, in the same order.
C29_FlagOnlyAddsUnchanged ==
    pc = "flagged" =>
        /\ WithUnchanged.summary = WithoutUnchanged.summary
        /\ WithUnchanged.totalDifferences = WithoutUnchanged.totalDifferences
        /\ WithoutUnchanged.differences =
                SelectSeq(WithUnchanged.differences, LAMBDA d : d.diffType # "unchanged")

\* C29 witness: includeUnchanged added 'unchanged' items between changed ones.
C29_Witness ==
    /\ pc = "flagged"
    /\ WithoutUnchanged.differences # <<>>
    /\ Len(WithUnchanged.differences) > Len(WithoutUnchanged.differences)
    /\ \E i, j \in DOMAIN WithUnchanged.differences :
            /\ i < j
            /\ WithUnchanged.differences[i].diffType = "unchanged"
            /\ WithUnchanged.differences[j].diffType # "unchanged"

\* C27: every stored session comes from a callback whose state parameter was
\* a state getAuthorizationUrl had issued, not more than its lifetime before
\* and not consumed by an earlier callback (its verifier was handed to this
\* exchange), and the verifier of a state is handed out at most once.
C27_SessionOnlyForLiveState ==
    /\ \A s \in sessions :
            /\ s.state \in DOMAIN issuedAt
            /\ s.at <= issuedAt[s.state] + Lifetime
            /\ s.codeVerifier = VerifierOf(s.state)
    /\ \A state \in States : handedOut[state] <= 1

\* C27 witness: a state was issued, and a session was stored by a callback
\* that carried no state parameter and was handed no verifier.
C27_Witness ==
    /\ issuedAt # EmptyMap
    /\ \E s \in sessions : s.state = Undefined /\ s.codeVerifier = Undefined

====
